---- MODULE Spec2Model ----
(***************************************************************************)
(* Verification model of the package-installer build orchestrator:        *)
(* content store, pipeline executor, topological scheduler, recipe-host   *)
(* download, sandbox builder and export materializer.                     *)
(*                                                                         *)
(* Strings of the program are modelled as sequences of tokens, so that    *)
(* the character-level conversions of the code (sanitizing, placeholder   *)
(* substitution, splitting) are computed and not assumed.                 *)
(* Option<T> is modelled as a sequence of length 0 (None) or 1 (Some).    *)
(***************************************************************************)
EXTENDS Integers, Sequences, FiniteSets, TLC

VARIABLES
    \* ---- content store (services/cache/build.rs) ----
    store,        \* builds/<file>.json : file key -> version -> Seq(StepResult)
    lookupLog,    \* the get_step_result call just made and its result, if any
    nrec,         \* number of record operations done
    \* ---- pipeline executor (commands/cave/build.rs) ----
    manifest,     \* settings.packages of the workspace (resolved queries)
    pipelines,    \* query -> concrete pipeline of the resolved version
    downloads,    \* cache_download_dir : file name -> content
    pkgdirs,      \* cache_packages_dir : directory name -> content
    bpc,          \* "idle" | "running"
    cfg,          \* [force, rebuild] of the running / last invocation
    order,        \* sorted_packages of the invocation
    pi,           \* index into order (1-based)
    si,           \* step index i of execute_pipeline (0-based)
    recomputed,   \* the local of execute_pipeline
    current_path, \* the local of execute_pipeline
    events,       \* what each step of this invocation did
    applied,      \* packages whose exports were applied in this invocation
    lastResult,   \* "none" | "ok" | "failed" : result of the last finished build
    pre,          \* what held when the invocation started
    edits,        \* recipe edits since the last build started
    nbuilds,      \* number of invocations started
    nedits,       \* number of recipe edits made
    \* ---- dependency scheduler (commands/cave/build.rs) ----
    resolved,     \* resolved_packages: query -> build_dependencies (names)
    keyorder,     \* the order in which HashMap::keys() yields the queries
    tpc,          \* "start" | "sorted" | "done" | "failed" : place in execute_build
    sorted,       \* result of topological_sort (sorted_packages)
    troot,        \* composition root: None (no directory) or the set of
                  \* packages whose exports it holds
    troot0,       \* the composition root when execute_build was called
    tsteps,       \* packages whose pipeline ran in this invocation
    \* ---- recipe-host download (starlark/api/stdlib.rs) ----
    dcache,         \* meta_dir content cache: cache file -> None | Some(payload)
    download_locks, \* State::download_locks: url -> None | Some(mutex)
    mapguard,       \* thread that holds the DashMap entry guard, or 0
    mutex,          \* mutex -> thread that holds it, or 0
    dpc,            \* thread -> place in download()
    durl,           \* thread -> the url argument of its call
    dforce,         \* thread -> context.force of its call
    dlock,          \* thread -> the Arc<Mutex> it cloned, or 0
    dret,           \* thread -> what its last call returned
    requests,       \* url -> network requests issued for it
    ncalls,         \* calls of download() made so far
    \* ---- sandbox builder (commands/cave/run.rs, services/sandbox.rs) ----
    sbpc,             \* the call of prepare_sandbox that comes next
    binds,            \* Bubblewrap.binds: the BindPairs, one per cave_target
    xdg_runtime_dir,  \* env::var("XDG_RUNTIME_DIR") of the invoker
    writable_pilocal, \* SandboxOptions.writable_pilocal
    homedir,          \* cave.homedir (a temporary directory for Run steps)
    existing,         \* the optional host paths that exist
    dependency_dirs,  \* SandboxOptions.dependency_dirs
    \* ---- export materializer (commands/cave/build.rs, commands/cave/fs.rs) ----
    fsys,         \* the file system: existing path -> [kind, target]
    all_env,      \* the environment map the exports accumulate
    xresult,      \* "none" | "ok" | "err" : result of the last export applied
    nexports,     \* exports applied so far
    \* ---- workspace descriptor and its composition root (models/cave.rs,
    \*      commands/cave/add.rs, rem.rs, build.rs) ----
    cv_packages,  \* cave.settings.packages
    cv_variant,   \* cave.variants["dev"].packages, None while the variant is missing
    croot,        \* packages whose exports are in the composition root
    last_order,   \* build order of the most recent successful build, if any
    eff_packages, \* packages of the effective settings last computed, if any
    eff_variant,  \* the variant they were computed for
    \* ---- the exports of one package applied by successive builds ----
    rx_exports,   \* the exports of the package, in recipe order
    rx_pass,      \* applications of the list completed
    rx_first,     \* the file system after the first application
    \* ---- processes sharing one package file of the content store ----
    sc_file,      \* builds/<pkg>.json on disk: [state, data]
    sc_pc,        \* process -> place in its operation
    sc_op,        \* process -> the operation it performs
    sc_loaded,    \* process -> what BuildCache::load returned to it
    sc_before,    \* process -> the file on disk when its operation began
    sc_result,    \* process -> result of its operation
    sc_done,      \* records that returned Ok, in order of return
    \* ---- sandbox environment (commands/cave/run.rs, services/sandbox.rs) ----
    host_vars,    \* invocation -> std::env::vars() of the host process
    package_envs, \* SandboxOptions.package_envs
    cave_envs,    \* the `set` map of the effective settings
    dep_bins,     \* bin directories of the dependency directories that exist
    envs,         \* invocation -> Bubblewrap.envs
    epc,          \* the call of prepare_sandbox that comes next
    \* ---- version cache (models/version_entry.rs, services/sync.rs) ----
    vl_disk,      \* the version file of the package on disk: none or the list in it
    vl_mem,       \* State.version_lists entry of the package
    pl_disk,      \* the package list file of the repository on disk
    clock,        \* counts the lists produced and the syncs begun
    gpc,          \* the getter: place in get_for_package
    gforce,       \* the getter: config.force || opts.force
    gloaded,      \* the getter: what VersionList::load returned
    gret,         \* the getter: result of get_for_package
    gsyncfailed,  \* the getter: sync_package returned Err in this get
    spc,          \* the syncer: place in sync_repo
    sbegin,       \* clock when the current sync_repo began
    ngets,        \* calls of get_for_package made
    nsyncs,       \* calls of sync_repo made
    \* ---- repo add (commands/repo/add.rs, models/repository.rs) ----
    repos_file,   \* repositories file of the configuration: the list of [path, name]
    dir_meta,     \* directory -> name in its pi.repo.json, or none
    add_path,     \* the path argument of the last repo add
    add_before,   \* the repositories file when the last repo add began
    add_result,   \* result of the last execute_repo_add
    repo_synced,  \* names of the repositories the adds have synced
    nadds,        \* calls of execute_repo_add made
    \* ---- command guard (main.rs) ----
    pi_cave,      \* PI_CAVE in the environment of the next pi process: none or its value
    cmd,          \* the command of the last pi process
    exit_code,    \* exit code of the last pi process
    world,        \* store -> number of writes made to it
    world_before, \* world when the last pi process started
    was_inside,   \* the last pi process started with PI_CAVE set
    cache_dirs,   \* the cache directories Config::new creates exist
    ncmds,        \* pi processes run
    \* ---- selectors (models/selector.rs, commands/package/resolve.rs) ----
    sl_query,     \* the query string given to PackageSelector::parse, or none
    sl_sel,       \* the selector: none or its four components
    sl_resolved,  \* try_resolve_in_repo finds the selector in the repository
    sl_back,      \* what parsing the formatted selector gave
    slpc,         \* the step that comes next
    \* ---- best version (commands/package/resolve.rs, models/version_entry.rs, utils/version.rs) ----
    bv_list,      \* VersionList.versions given to find_best_version
    bv_target,    \* the target version
    bv_result,    \* what find_best_version returned
    bvpc,         \* the step that comes next
    \* ---- selector resolution across repositories (commands/package/resolve.rs) ----
    rs_repos,     \* the configured repositories in order: [name, index, match]
    rs_recipe,    \* the repository the selector names, or none
    rs_force,     \* config.force
    rs_result,    \* what resolve_query returned: none or the repository of the version
    rspc,         \* the step that comes next
    \* ---- dependency resolution of a build (commands/cave/build.rs) ----
    dp_status,    \* query -> "ok", "invalid" (the selector does not parse) or "missing" (no version resolves)
    dp_deps,      \* query -> build_dependencies of its version: sequence of [name, optional]
    to_resolve,   \* the queue of resolve_dependencies
    dp_resolved,  \* the keys of the resolved map
    dp_failed,    \* the query whose error ended resolve_dependencies, or none
    dppc,         \* "loop", "ok" or "failed"
    \* ---- repositories sharing the meta cache (services/sync.rs, models/config.rs) ----
    meta_files,   \* names of the files in the meta directory of the cache
    pg_version_lists,\* keys of State.version_lists
    pg_package_lists,\* keys of State.package_lists
    pg_synced,    \* the repository of the last sync_repo, or none
    pg_before,    \* meta_files and pg_version_lists when the last sync_repo began
    npurge,       \* operations made
    \* ---- builds and disk clean over time (commands/cave/build.rs, commands/disk/clean.rs) ----
    last_exec,    \* <<query, step index>> -> "none" | "ok" | "failed" : how the last execution of the step ended
    nclean        \* number of disk clean commands run

storeVars == <<store, lookupLog, nrec>>
buildVars == <<manifest, pipelines, downloads, pkgdirs, bpc, cfg, order, pi, si, recomputed,
               current_path, events, applied, lastResult, pre, edits, nbuilds, nedits>>
topoVars == <<resolved, keyorder, tpc, sorted, troot, troot0, tsteps>>
dlVars == <<dcache, download_locks, mapguard, mutex, dpc, durl, dforce, dlock, dret,
            requests, ncalls>>
sbVars == <<sbpc, binds, xdg_runtime_dir, writable_pilocal, homedir, existing, dependency_dirs>>
xVars == <<fsys, all_env, xresult, nexports>>
cvVars == <<cv_packages, cv_variant, croot, last_order, eff_packages, eff_variant>>
rxVars == <<rx_exports, rx_pass, rx_first>>
scVars == <<sc_file, sc_pc, sc_op, sc_loaded, sc_before, sc_result, sc_done>>
moreVars == <<cvVars, rxVars, scVars>>
evVars == <<host_vars, package_envs, cave_envs, dep_bins, envs, epc>>
vcVars == <<vl_disk, vl_mem, pl_disk, clock, gpc, gforce, gloaded, gret, gsyncfailed, spc, sbegin, ngets, nsyncs>>
rpVars == <<repos_file, dir_meta, add_path, add_before, add_result, repo_synced, nadds>>
glVars == <<pi_cave, cmd, exit_code, world, world_before, was_inside, cache_dirs, ncmds>>
slVars == <<sl_query, sl_sel, sl_resolved, sl_back, slpc>>
bvVars == <<bv_list, bv_target, bv_result, bvpc>>
rsVars == <<rs_repos, rs_recipe, rs_force, rs_result, rspc>>
dpVars == <<dp_status, dp_deps, to_resolve, dp_resolved, dp_failed, dppc>>
pgVars == <<meta_files, pg_version_lists, pg_package_lists, pg_synced, pg_before, npurge>>
lcVars == <<last_exec, nclean>>
lateVars == <<evVars, vcVars, rpVars, glVars, slVars, bvVars, rsVars, dpVars, pgVars, lcVars>>
earlyVars == <<storeVars, buildVars, topoVars, dlVars, sbVars, xVars, moreVars>>
vars == <<earlyVars, lateVars>>

\* What the actions of one component leave alone.
notStore == <<buildVars, topoVars, dlVars, sbVars, xVars, moreVars, lateVars>>
notBuild == <<lookupLog, nrec, topoVars, dlVars, sbVars, xVars, moreVars, lateVars>>
notTopo == <<storeVars, buildVars, dlVars, sbVars, xVars, moreVars, lateVars>>
notDownload == <<storeVars, buildVars, topoVars, sbVars, xVars, moreVars, lateVars>>
notSandbox == <<storeVars, buildVars, topoVars, dlVars, xVars, moreVars, lateVars>>
notExports == <<storeVars, buildVars, topoVars, dlVars, sbVars, moreVars, lateVars>>
notCave == <<storeVars, buildVars, topoVars, dlVars, sbVars, xVars, rxVars, scVars, lateVars>>
notReapply == <<storeVars, buildVars, topoVars, dlVars, sbVars, cvVars, scVars, lateVars>>
notShared == <<storeVars, buildVars, topoVars, dlVars, sbVars, xVars, cvVars, rxVars, lateVars>>
notEnv == <<earlyVars, vcVars, rpVars, glVars, slVars, bvVars, rsVars, dpVars, pgVars, lcVars>>  \* evVars
notVc == <<earlyVars, evVars, rpVars, glVars, slVars, bvVars, rsVars, dpVars, pgVars, lcVars>>  \* vcVars
notRepo == <<earlyVars, evVars, vcVars, glVars, slVars, bvVars, rsVars, dpVars, pgVars, lcVars>>  \* rpVars
notMain == <<earlyVars, evVars, vcVars, rpVars, slVars, bvVars, rsVars, dpVars, pgVars, lcVars>>  \* glVars
notSelector == <<earlyVars, evVars, vcVars, rpVars, glVars, bvVars, rsVars, dpVars, pgVars, lcVars>>  \* slVars
notBest == <<earlyVars, evVars, vcVars, rpVars, glVars, slVars, rsVars, dpVars, pgVars, lcVars>>  \* bvVars
notResolve == <<earlyVars, evVars, vcVars, rpVars, glVars, slVars, bvVars, dpVars, pgVars, lcVars>>  \* rsVars
notDeps == <<earlyVars, evVars, vcVars, rpVars, glVars, slVars, bvVars, rsVars, pgVars, lcVars>>  \* dpVars
notPurge == <<earlyVars, evVars, vcVars, rpVars, glVars, slVars, bvVars, rsVars, dpVars, lcVars>>  \* pgVars
notLife == <<lookupLog, nrec, topoVars, dlVars, sbVars, xVars, moreVars, evVars, vcVars, rpVars, glVars, slVars, bvVars, rsVars, dpVars, pgVars>>

\* ------------------------------------------------------------------------
\* Option and string helpers
\* ------------------------------------------------------------------------
NoneV == <<>>
Some(x) == <<x>>
IsSome(o) == Len(o) = 1
Last(s) == s[Len(s)]

\* ------------------------------------------------------------------------
\* Bounds of the model
\* ------------------------------------------------------------------------
MaxRecords == 3      \* record operations in a content-store behaviour
MaxIdx == 2          \* largest step index handed to record / lookup
MaxBuilds == 3       \* build invocations in one behaviour
MaxEdits == 1        \* recipe edits in one behaviour
MaxEdges == 4        \* declared build dependencies in a resolved map
NumThreads == 2      \* threads that evaluate recipes concurrently
MaxCalls == 3        \* calls of download() made in one behaviour
MaxExports == 3      \* exports materialized in one behaviour
MaxSymlinks == 4     \* symbolic links followed while one path is resolved

\* ------------------------------------------------------------------------
\* Content store: services/cache/build.rs
\* ------------------------------------------------------------------------
BadChars == {"/", "\\", " ", ":"}

\* BuildCache::get_file_path: pkgname.replace(['/', '\\', ' ', ':'], "_")
get_file_path(pkgname) ==
    [i \in 1..Len(pkgname) |-> IF pkgname[i] \in BadChars THEN "_" ELSE pkgname[i]]

\* The gap sentinel pushed by update_step_result.
Sentinel == [step_hash |-> <<"unknown">>, output_path |-> NoneV, status |-> "Skipped"]

\* PackageBuildCache::default(): no version has any step.
EmptyFile(versions) == [v \in versions |-> <<>>]

\* BuildCache::get_step_result on the loaded file `file`.
get_step_result_nostatus(file, version, step_index, step_hash) ==
    LET steps == file[version]
    IN IF step_index + 1 <= Len(steps) /\ steps[step_index + 1].step_hash = step_hash
       THEN Some(steps[step_index + 1]) ELSE NoneV
get_step_result(file, version, step_index, step_hash) ==
    LET steps == file[version]
    IN IF step_index + 1 <= Len(steps)
          /\ steps[step_index + 1].step_hash = step_hash
          /\ steps[step_index + 1].status = "Success"
       THEN Some(steps[step_index + 1])
       ELSE NoneV

\* The while loop of update_step_result: push sentinels up to step_index.
FillGaps_none(steps, step_index) == steps
RECURSIVE FillGaps(_, _)
FillGaps(steps, step_index) ==
    IF Len(steps) < step_index THEN FillGaps(Append(steps, Sentinel), step_index)
    ELSE steps

\* BuildCache::update_step_result on the loaded file; the result is saved.
update_step_result(file, version, step_index, result) ==
    LET steps == file[version]
        new == IF step_index < Len(steps) THEN [steps EXCEPT ![step_index + 1] = result]
               ELSE IF step_index = Len(steps) THEN Append(steps, result)
               ELSE Append(FillGaps(steps, step_index), result)
    IN [file EXCEPT ![version] = new]

\* ------------------------------------------------------------------------
\* Recipes: the resolved packages of the build (models/version_entry.rs)
\* ------------------------------------------------------------------------
Queries == {"core/foo", "extra/foo", "bar"}

\* VersionEntry.pkgname / version of what each query resolves to. The same
\* package name and version can be resolved from two repositories.
PkgNameOf(q) == IF q = "bar" THEN <<"bar">> ELSE <<"foo">>
VersionOf(q) == <<"1.0">>
Versions == {<<"1.0">>, <<"2.0">>}

Url1 == <<"https:", "m1", "a.tgz">>
Url2 == <<"https:", "m2", "a.tgz">>
Urls == {Url1, Url2}

PackagesDirStr == "/cache/packages"
Cmd1 == <<"make", " ", "install">>
Cmd2 == <<"@PACKAGES_DIR", "/x/configure">>
Cmd3 == <<PackagesDirStr, "/x/configure">>
Commands == {Cmd1, Cmd2, Cmd3}

\* File contents: the bytes a mirror serves for a url, other bytes, a
\* truncated stream.
Good(url) == url
Evil == <<"evil">>
Partial == <<"partial">>
Absent == <<>>
EmptyDir == <<"empty">>
Digest(content) == <<"sha256">> \o content

\* InstallStep (models/version_entry.rs), one record shape for the three kinds.
FetchStep(url, checksum, filename) ==
    [kind |-> "Fetch", name |-> NoneV, url |-> url, checksum |-> checksum,
     filename |-> filename, format |-> NoneV, command |-> <<>>, cwd |-> NoneV]
ExtractStep ==
    [kind |-> "Extract", name |-> NoneV, url |-> <<>>, checksum |-> NoneV,
     filename |-> NoneV, format |-> NoneV, command |-> <<>>, cwd |-> NoneV]
RunStep(command) ==
    [kind |-> "Run", name |-> NoneV, url |-> <<>>, checksum |-> NoneV,
     filename |-> NoneV, format |-> NoneV, command |-> command, cwd |-> NoneV]

InitPipelines ==
    [q \in Queries |->
        CASE q = "core/foo"  -> <<FetchStep(Url1, Some(Digest(Good(Url1))), NoneV),
                                  ExtractStep, RunStep(Cmd2), RunStep(Cmd1)>>
          [] q = "extra/foo" -> <<FetchStep(Url1, NoneV, NoneV), ExtractStep, RunStep(Cmd1)>>
          [] OTHER           -> <<RunStep(Cmd1)>>]

Manifests == {{"core/foo"}, {"core/foo", "extra/foo"}, {"core/foo", "bar"}}

\* ------------------------------------------------------------------------
\* Fingerprinting: utils/crypto.rs, #[derive(Hash)] of InstallStep
\* ------------------------------------------------------------------------
\* str::hash writes the bytes and a 0xff terminator; Option::hash writes the
\* discriminant and then the value. The 64-bit SipHash of the fed stream and
\* its hex formatting are taken to be injective on the streams of the model.
HashStr(s) == s \o <<"ff">>
HashOpt(o) == IF o = NoneV THEN <<"0">> ELSE <<"1">> \o HashStr(o[1])

hash_to_string(step) ==
    CASE step.kind = "Fetch" ->
            <<"0">> \o HashOpt(step.name) \o HashStr(step.url)
                    \o HashOpt(step.checksum) \o HashOpt(step.filename)
      [] step.kind = "Extract" ->
            <<"1">> \o HashOpt(step.name) \o HashOpt(step.format)
      [] OTHER ->
            <<"2">> \o HashOpt(step.name) \o HashStr(step.command) \o HashOpt(step.cwd)

\* Config::resolve_packages_dir: "@PACKAGES_DIR" -> the packages root.
resolve_packages_dir(s) ==
    [i \in 1..Len(s) |-> IF s[i] = "@PACKAGES_DIR" THEN PackagesDirStr ELSE s[i]]

\* utils::fs::sanitize_name
sanitize_name(s) == [i \in 1..Len(s) |-> IF s[i] \in BadChars THEN "_" ELSE s[i]]

\* execute_step, Extract: "<sanitize(pkg-ver)>-extracted"
ExtractDirName(q) == sanitize_name(PkgNameOf(q) \o <<"-">> \o VersionOf(q)) \o <<"-extracted">>
\* execute_step, Run: default_base
DefaultBaseName(q) == sanitize_name(PkgNameOf(q) \o <<"-">> \o VersionOf(q))
DirNames == {ExtractDirName(q) : q \in Queries} \cup {DefaultBaseName(q) : q \in Queries}
FileNames == {<<Last(u)>> : u \in Urls}

DownloadPath(fname) == <<"downloads">> \o fname
PackagesPath(dirname) == <<"packages">> \o dirname
IsDownloadPath(p) == Len(p) >= 1 /\ p[1] = "downloads"
IsPackagesPath(p) == Len(p) >= 1 /\ p[1] = "packages"
Tail1(p) == SubSeq(p, 2, Len(p))

\* The variables of the other components, where a specification leaves them out.
IdleTopo ==
    /\ resolved = <<>> /\ keyorder = <<>> /\ tpc = "start" /\ sorted = <<>>
    /\ troot = NoneV /\ troot0 = NoneV /\ tsteps = {}

\* Recipe-host download: the threads, the urls they ask for, the lock table.
Threads == 1..NumThreads
DUrl1 == <<"https", "://", "h", "/", "a">>
DUrl2 == <<"https", "://", "h", "/", "b">>
DUrls == {DUrl1, DUrl2}
Mutexes == 1..(NumThreads + Cardinality(DUrls))
UrlBadTokens == {"://", "/", ":", "?", "&", "="}

\* Cache::get_path: the url with "://", "/", ":", "?", "&", "=" replaced by "_".
get_path(url) == [i \in 1..Len(url) |-> IF url[i] \in UrlBadTokens THEN "_" ELSE url[i]]
CacheFiles == {get_path(u) : u \in DUrls}

InitDownload ==
    /\ dcache = [f \in CacheFiles |-> NoneV]
    /\ download_locks = [u \in DUrls |-> NoneV]
    /\ mapguard = 0
    /\ mutex = [m \in Mutexes |-> 0]
    /\ dpc = [t \in Threads |-> "idle"]
    /\ durl = [t \in Threads |-> DUrl1]
    /\ dforce = [t \in Threads |-> FALSE]
    /\ dlock = [t \in Threads |-> 0]
    /\ dret = [t \in Threads |-> NoneV]
    /\ requests = [u \in DUrls |-> 0]
    /\ ncalls = 0

\* Sandbox builder: the host paths of an invocation, as component sequences.
HostHome == <<"home", "u">>
Workspace == <<"home", "u", "proj">>
CaveHome == <<"home", "u", ".local", "state", "pi", "homes", "proj">>
TmpHome == <<"tmp", ".tmpAbC">>
CacheDir == <<"home", "u", ".cache", "pi">>
ConfigDir == <<"home", "u", ".config", "pi">>
HostPilocal == CacheDir \o <<"pilocals", "proj">>
InternalPilocal == HostHome \o <<".pilocal">>
Lib64 == <<"lib64">>
DepDir1 == CacheDir \o <<"packages", "dep1">>
DepDir2 == <<"opt", "dep2">>
RuntimeDirs == {<<"run", "user", "1000">>, <<"usr">>, <<"home", "u", ".xdg">>}

InitSandbox ==
    /\ sbpc = "bind_system_paths"
    /\ binds = {}
    /\ xdg_runtime_dir \in {NoneV} \cup {Some(d) : d \in RuntimeDirs}
    /\ writable_pilocal \in BOOLEAN
    /\ homedir \in {CaveHome, TmpHome}
    /\ existing \in SUBSET {Lib64, CacheDir, ConfigDir, DepDir1}
    /\ dependency_dirs \in {<<>>, <<DepDir1>>, <<DepDir1, DepDir2>>}

IdleSandbox ==
    /\ sbpc = "bind_system_paths" /\ binds = {}
    /\ xdg_runtime_dir = NoneV /\ writable_pilocal = FALSE /\ homedir = CaveHome
    /\ existing = {} /\ dependency_dirs = <<>>

\* Export materializer: the composition root and the directory of a package.
PilocalDir == <<"pilocals", "proj">>
PackagesRoot == <<"packages">>
PkgDir == <<"packages", "foo-1.0">>
Entry(kind, target) == [kind |-> kind, target |-> target]
Dir == Entry("dir", <<>>)
File == Entry("file", <<>>)

\* execute_sorted_pipelines has created the composition root; the package
\* directory holds what the pipeline of the package left in it.
InitExports ==
    /\ fsys = (<<"pilocals">> :> Dir) @@ (PilocalDir :> Dir) @@ (PackagesRoot :> Dir)
              @@ (PkgDir :> Dir) @@ (PkgDir \o <<"bin">> :> Dir)
              @@ (PkgDir \o <<"bin", "gcc">> :> File) @@ (PkgDir \o <<"bin", "ld">> :> File)
              @@ (PkgDir \o <<"README">> :> File)
    /\ all_env = {}
    /\ xresult = "none"
    /\ nexports = 0

\* Workspace descriptor: a new cave has no packages and no variants, and no
\* build has made its composition root.
CaveName == "proj"
\* Config::pilocal_path(cave_name, _variant)
pilocal_path(cave_name, variant) == <<"pilocals", cave_name>>
InitCave ==
    /\ cv_packages = <<>>
    /\ cv_variant = NoneV
    /\ croot = [d \in {pilocal_path(CaveName, v) : v \in {NoneV, Some("dev")}} |-> {}]
    /\ last_order = NoneV
    /\ eff_packages = NoneV
    /\ eff_variant = NoneV

IdleReapply == rx_exports = <<>> /\ rx_pass = 0 /\ rx_first = NoneV

\* One package file of the content store and the processes that use it.
Procs == {"w1", "w2", "r"}
NoOp == [kind |-> "none", version |-> <<>>, idx |-> 0, hash |-> <<>>]
IdleShared ==
    /\ sc_file = [state |-> "absent", data |-> EmptyFile(Versions)]
    /\ sc_pc = [p \in Procs |-> "idle"]
    /\ sc_op = [p \in Procs |-> NoOp]
    /\ sc_loaded = [p \in Procs |-> NoneV]
    /\ sc_before = [p \in Procs |-> NoneV]
    /\ sc_result = [p \in Procs |-> NoneV]
    /\ sc_done = <<>>

IdleMore == InitCave /\ IdleReapply /\ IdleShared

\* Sandbox environment: no sandbox is being prepared.
Invocations == 1..2
IdleEnv ==
    /\ host_vars = [i \in Invocations |-> <<>>]
    /\ package_envs = <<>>
    /\ cave_envs = <<>>
    /\ dep_bins = <<>>
    /\ envs = [i \in Invocations |-> <<>>]
    /\ epc = "idle"

IdleVc ==
    /\ vl_disk = NoneV /\ vl_mem = NoneV /\ pl_disk = NoneV /\ clock = 0
    /\ gpc = "idle" /\ gforce = FALSE /\ gloaded = NoneV /\ gret = NoneV /\ gsyncfailed = FALSE
    /\ spc = "idle" /\ sbegin = 0 /\ ngets = 0 /\ nsyncs = 0

IdleRepo ==
    /\ repos_file = <<>> /\ dir_meta = <<>> /\ add_path = NoneV /\ add_before = <<>>
    /\ add_result = "none" /\ repo_synced = {} /\ nadds = 0

IdleMain ==
    /\ pi_cave = NoneV /\ cmd = "none" /\ exit_code = 0
    /\ world = <<>> /\ world_before = <<>> /\ was_inside = FALSE
    /\ cache_dirs = FALSE /\ ncmds = 0

IdleSelector ==
    /\ sl_query = NoneV /\ sl_sel = NoneV /\ sl_resolved = FALSE /\ sl_back = NoneV
    /\ slpc = "idle"

IdleBest ==
    /\ bv_list = <<>> /\ bv_target = <<>> /\ bv_result = NoneV /\ bvpc = "idle"

IdleResolve ==
    /\ rs_repos = <<>> /\ rs_recipe = NoneV /\ rs_force = FALSE /\ rs_result = NoneV
    /\ rspc = "idle"

IdleDeps ==
    /\ dp_status = <<>> /\ dp_deps = <<>> /\ to_resolve = <<>> /\ dp_resolved = {}
    /\ dp_failed = NoneV /\ dppc = "idle"

IdlePurge ==
    /\ meta_files = {} /\ pg_version_lists = {} /\ pg_package_lists = {} /\ pg_synced = NoneV
    /\ pg_before = <<>> /\ npurge = 0

IdleLife ==
    last_exec = <<>> /\ nclean = 0

IdleLate == IdleEnv /\ IdleVc /\ IdleRepo /\ IdleMain /\ IdleSelector /\ IdleBest /\ IdleResolve /\ IdleDeps /\ IdlePurge /\ IdleLife

\* ------------------------------------------------------------------------
\* Pipeline executor: commands/cave/build.rs
\* ------------------------------------------------------------------------
StoreKeys == {get_file_path(PkgNameOf(q)) : q \in Queries}
EmptyStore == [k \in StoreKeys |-> EmptyFile(Versions)]

\* execute_pipeline: the step whose fingerprint is taken.
resolved_step(step) ==
    IF step.kind = "Run" THEN [step EXCEPT !.command = resolve_packages_dir(@)] ELSE step

\* execute_pipeline: skip_cache
skip_cache(step, rebuild) == IF step.kind = "Fetch" THEN FALSE ELSE rebuild

\* execute_pipeline: the guard under which the content store is consulted.
consult_cache_norecomputed(force, recomp, step, rebuild) ==
    ~force /\ ~skip_cache(step, rebuild)
consult_cache(force, recomp, step, rebuild) ==
    ~force /\ ~recomp /\ ~skip_cache(step, rebuild)

\* What one call of execute_step can do: [ok, path, dl, pd, net, run, selfskip].
\* dl / pd are the downloads and packages directories after the call.
Outcome(ok, path, dl, pd, net, run, selfskip) ==
    [ok |-> ok, path |-> path, dl |-> dl, pd |-> pd, net |-> net, run |-> run,
     selfskip |-> selfskip]

\* Downloader::download_to_file(url, dest, checksum) with dest absent or present.
download_to_file(url, fname, checksum, dl, pd) ==
    LET dest == DownloadPath(fname)
        matches == dl[fname] # Absent /\ checksum # NoneV /\ Digest(dl[fname]) = checksum[1]
        served(c) == [dl EXCEPT ![fname] = c]
    IN IF matches
       THEN {Outcome(TRUE, dest, dl, pd, FALSE, FALSE, TRUE)}
       ELSE \* agent.get(url).call()? fails: nothing is written
            {Outcome(FALSE, dest, dl, pd, TRUE, FALSE, FALSE)}
            \* the stream breaks after File::create(dest)
            \cup {Outcome(FALSE, dest, served(Partial), pd, TRUE, FALSE, FALSE)}
            \* the stream completes; the digest is verified afterwards
            \cup {Outcome(checksum = NoneV \/ Digest(c) = checksum[1],
                          dest, served(c), pd, TRUE, FALSE, FALSE) : c \in {Good(url), Evil}}

\* Unarchiver::unarchive(src, dest)
unarchive(src, dirname, dl, pd) ==
    LET dest == PackagesPath(dirname)
    IN IF pd[dirname] # Absent
       THEN {Outcome(TRUE, dest, dl, pd, FALSE, FALSE, TRUE)}
       ELSE IF IsDownloadPath(src) /\ dl[Tail1(src)] \notin {Absent, Partial, Evil}
            THEN {Outcome(TRUE, dest, dl, [pd EXCEPT ![dirname] = dl[Tail1(src)]],
                          FALSE, FALSE, FALSE)}
            \* create_dir_all(dest) is done before the archive is opened
            ELSE {Outcome(FALSE, dest, dl, [pd EXCEPT ![dirname] = EmptyDir],
                          FALSE, FALSE, FALSE)}

\* execute_step, Fetch: the file name of dest.
fetch_file_name(step) == IF step.filename # NoneV THEN step.filename[1] ELSE <<Last(step.url)>>

\* execute_step(ctx, step, current_path)
execute_step(q, step, cur, force, rebuild, dl, pd) ==
    CASE step.kind = "Fetch" ->
            LET fname == fetch_file_name(step)
            IN IF dl[fname] # Absent
               THEN {Outcome(TRUE, DownloadPath(fname), dl, pd, FALSE, FALSE, TRUE)}
               ELSE download_to_file(step.url, fname, step.checksum, dl, pd)
      [] step.kind = "Extract" ->
            IF cur = NoneV
            THEN {Outcome(FALSE, <<>>, dl, pd, FALSE, FALSE, FALSE)}
            ELSE LET dirname == ExtractDirName(q)
                 IN IF pd[dirname] # Absent /\ ~rebuild /\ ~force
                    THEN {Outcome(TRUE, PackagesPath(dirname), dl, pd, FALSE, FALSE, TRUE)}
                    ELSE unarchive(cur[1], dirname, dl, [pd EXCEPT ![dirname] = Absent])
      [] OTHER ->
            LET base_dir == IF cur = NoneV THEN PackagesPath(DefaultBaseName(q)) ELSE cur[1]
                pd2 == IF IsPackagesPath(base_dir) /\ pd[Tail1(base_dir)] = Absent
                       THEN [pd EXCEPT ![Tail1(base_dir)] = EmptyDir] ELSE pd
            IN {Outcome(ok, base_dir, dl, pd2, FALSE, TRUE, FALSE) : ok \in BOOLEAN}

\* update_step_cache: a Success outcome with the step's fingerprint.
update_step_cache(st, q, i, hash, result_path) ==
    LET key == get_file_path(PkgNameOf(q))
    IN [st EXCEPT ![key] = update_step_result(@, VersionOf(q), i,
            [step_hash |-> hash, output_path |-> Some(result_path), status |-> "Success"])]

\* execute_pipeline: `execute_step(..)?` returns the error of a failed step
\* before update_step_cache is reached.
record_outcome_always(st, q, i, hash, o) == update_step_cache(st, q, i, hash, o.path)
record_outcome(st, q, i, hash, o) ==
    IF o.ok THEN update_step_cache(st, q, i, hash, o.path) ELSE st

Event(q, i, kind, how, consulted, stored, o) ==
    [q |-> q, i |-> i, kind |-> kind, how |-> how, consulted |-> consulted,
     stored |-> stored, net |-> o.net, run |-> o.run, selfskip |-> o.selfskip, ok |-> o.ok]
NoOutcome == [net |-> FALSE, run |-> FALSE, selfskip |-> FALSE, ok |-> TRUE]

Perms(S) == {f \in [1..Cardinality(S) -> S] : \A a, b \in 1..Cardinality(S) : f[a] = f[b] => a = b}

InitBuild ==
    /\ manifest \in Manifests
    /\ pipelines = InitPipelines
    /\ downloads = [f \in FileNames |-> Absent]
    /\ pkgdirs = [d \in DirNames |-> Absent]
    /\ bpc = "idle"
    /\ cfg = [force |-> FALSE, rebuild |-> FALSE]
    /\ order = <<>>
    /\ pi = 1
    /\ si = 0
    /\ recomputed = FALSE
    /\ current_path = NoneV
    /\ events = <<>>
    /\ applied = <<>>
    /\ lastResult = "none"
    /\ pre = [ok |-> FALSE, edits |-> {}]
    /\ edits = {}
    /\ nbuilds = 0
    /\ nedits = 0

\* cave build [--force] [--rebuild]: execute_build up to execute_sorted_pipelines.
\* The packages of the manifest are independent; topological_sort iterates a
\* HashMap, so any order of them can be the build order.
execute_build(force, rebuild) ==
    /\ bpc = "idle"
    /\ nbuilds < MaxBuilds
    /\ \E o \in Perms(manifest) : order' = o
    /\ cfg' = [force |-> force, rebuild |-> rebuild]
    /\ bpc' = "running"
    /\ pi' = 1
    /\ si' = 0
    /\ recomputed' = FALSE
    /\ current_path' = NoneV
    /\ events' = <<>>
    /\ applied' = <<>>
    /\ pre' = [ok |-> lastResult = "ok", edits |-> edits]
    /\ edits' = {}
    /\ nbuilds' = nbuilds + 1
    /\ UNCHANGED <<manifest, pipelines, downloads, pkgdirs, lastResult, nedits, store>>

\* cave build, with the rest of the program left alone.
StartBuild(force, rebuild) ==
    /\ execute_build(force, rebuild)
    /\ UNCHANGED notBuild

\* One iteration of the loop of execute_pipeline for step si of order[pi].
execute_pipeline_iteration ==
    /\ bpc = "running"
    /\ pi <= Len(order)
    /\ si < Len(pipelines[order[pi]])
    /\ LET q == order[pi]
           step == pipelines[q][si + 1]
           rs == resolved_step(step)
           step_hash == hash_to_string(rs)
           consulted == consult_cache(cfg.force, recomputed, step, cfg.rebuild)
           lookup == get_step_result(store[get_file_path(PkgNameOf(q))],
                                     VersionOf(q), si, step_hash)
           cached == IF consulted THEN lookup ELSE NoneV
           stored == lookup # NoneV
       IN IF cached # NoneV
          THEN /\ current_path' = cached[1].output_path
               /\ events' = Append(events, Event(q, si, step.kind, "adopted", consulted, stored, NoOutcome))
               /\ si' = si + 1
               /\ UNCHANGED <<recomputed, store, downloads, pkgdirs, bpc, lastResult>>
          ELSE \E o \in execute_step(q, rs, current_path, cfg.force, cfg.rebuild,
                                     downloads, pkgdirs) :
               /\ recomputed' = TRUE
               /\ downloads' = o.dl
               /\ pkgdirs' = o.pd
               /\ events' = Append(events, Event(q, si, step.kind, "executed", consulted, stored, o))
               /\ store' = record_outcome(store, q, si, step_hash, o)
               /\ IF o.ok
                  THEN /\ current_path' = Some(o.path)
                       /\ si' = si + 1
                       /\ UNCHANGED <<bpc, lastResult>>
                  ELSE /\ bpc' = "idle"
                       /\ lastResult' = "failed"
                       /\ UNCHANGED <<current_path, si>>
    /\ UNCHANGED <<manifest, pipelines, cfg, order, pi, applied, pre, edits, nbuilds, nedits>>

\* One iteration of execute_pipeline, with the rest of the program left alone.
PipelineStep ==
    /\ execute_pipeline_iteration
    /\ UNCHANGED notBuild

\* execute_sorted_pipelines: the pipeline of order[pi] returned; its exports are
\* applied and the loop moves to the next package, or the build succeeds.
pipeline_returned ==
    /\ bpc = "running"
    /\ pi <= Len(order)
    /\ si = Len(pipelines[order[pi]])
    /\ applied' = Append(applied, order[pi])
    /\ pi' = pi + 1
    /\ si' = 0
    /\ recomputed' = FALSE
    /\ current_path' = NoneV
    /\ IF pi = Len(order)
       THEN bpc' = "idle" /\ lastResult' = "ok"
       ELSE UNCHANGED <<bpc, lastResult>>
    /\ UNCHANGED <<manifest, pipelines, downloads, pkgdirs, cfg, order, events, pre, edits,
                   nbuilds, nedits, store>>

\* The end of a pipeline, with the rest of the program left alone.
FinishPipeline ==
    /\ pipeline_returned
    /\ UNCHANGED notBuild

\* The recipe of q is edited between builds: the command of Run step k changes.
EditCommand(q, k, c) ==
    /\ bpc = "idle"
    /\ nedits < MaxEdits
    /\ k + 1 <= Len(pipelines[q])
    /\ pipelines[q][k + 1].kind = "Run"
    /\ pipelines[q][k + 1].command # c
    /\ pipelines' = [pipelines EXCEPT ![q][k + 1].command = c]
    /\ edits' = edits \cup {<<q, k, "command">>}
    /\ nedits' = nedits + 1
    /\ UNCHANGED <<manifest, downloads, pkgdirs, bpc, cfg, order, pi, si, recomputed,
                   current_path, events, applied, lastResult, pre, nbuilds, store>>
    /\ UNCHANGED notBuild

\* The recipe of q is edited between builds: the url of Fetch step k changes.
EditUrl(q, k, u) ==
    /\ bpc = "idle"
    /\ nedits < MaxEdits
    /\ k + 1 <= Len(pipelines[q])
    /\ pipelines[q][k + 1].kind = "Fetch"
    /\ pipelines[q][k + 1].url # u
    /\ pipelines' = [pipelines EXCEPT ![q][k + 1].url = u]
    /\ edits' = edits \cup {<<q, k, "url">>}
    /\ nedits' = nedits + 1
    /\ UNCHANGED <<manifest, downloads, pkgdirs, bpc, cfg, order, pi, si, recomputed,
                   current_path, events, applied, lastResult, pre, nbuilds, store>>
    /\ UNCHANGED notBuild

NextBuild ==
    \/ \E force, rebuild \in BOOLEAN : StartBuild(force, rebuild)
    \/ PipelineStep
    \/ FinishPipeline
    \/ \E q \in manifest, k \in 0..3, c \in Commands : EditCommand(q, k, c)
    \/ \E q \in manifest, k \in 0..3, u \in Urls : EditUrl(q, k, u)

BuildInit ==
    /\ InitBuild /\ store = EmptyStore /\ lookupLog = NoneV /\ nrec = 0
    /\ IdleTopo /\ InitDownload /\ IdleSandbox /\ InitExports /\ IdleMore /\ IdleLate

SpecBuild == BuildInit /\ [][NextBuild]_vars

\* ------------------------------------------------------------------------
\* Claims about the pipeline executor
\* ------------------------------------------------------------------------
EventIdx == DOMAIN events

\* C1 (cache-miss cascade): within one invocation, once a step of a package
\* was executed, every later step of that package is executed too and the
\* content store is not consulted for it, whatever the store holds for it.
C1_Cascade ==
    \A a, b \in EventIdx :
        (a < b /\ events[a].q = events[b].q /\ events[a].how = "executed")
            => (events[b].how = "executed" /\ ~events[b].consulted)

\* A later step was executed after an executed one although the store held a
\* matching Success outcome for it.
C1_Witness ==
    \E a, b \in EventIdx :
        /\ a < b /\ events[a].q = events[b].q
        /\ events[a].how = "executed"
        /\ events[b].how = "executed" /\ events[b].stored

\* C2 (idempotence): a build (force=false, rebuild=false) that follows a
\* successful build with nothing changed in between executes no Run step, does
\* no network download, and every step is adopted or self-skipped.
C2_Idempotence ==
    (pre.ok /\ pre.edits = {} /\ ~cfg.force /\ ~cfg.rebuild)
        => \A e \in EventIdx :
              /\ ~events[e].run
              /\ ~events[e].net
              /\ (events[e].how = "adopted" \/ events[e].selfskip)

\* C6 (cache-key change): after a successful build, when only the command of
\* Run step k of package q was edited, the next build (force=false,
\* rebuild=false) adopts steps 0..k-1 of q and executes step k and every later
\* step of q.
C6_CacheKeyChange ==
    \A q \in Queries, k \in 0..3 :
        (pre.ok /\ pre.edits = {<<q, k, "command">>} /\ ~cfg.force /\ ~cfg.rebuild)
            => \A e \in EventIdx :
                  events[e].q = q =>
                      IF events[e].i < k THEN events[e].how = "adopted"
                      ELSE events[e].how = "executed"

\* The step the last event of the running or finished build is about. The
\* recipes are as they were during that build while edits = {}.
LastEvent == events[Len(events)]
LastStep == pipelines[LastEvent.q][LastEvent.i + 1]
LastExecuted(kind) ==
    events # <<>> /\ edits = {} /\ LastEvent.kind = kind /\ LastEvent.how = "executed"

\* C13 (digest is enforced): a Fetch step that declares a digest does not
\* complete successfully while the file at dest has another digest.
C13_FetchDigestEnforced ==
    (LastExecuted("Fetch") /\ LastEvent.ok /\ LastStep.checksum # NoneV)
        => Digest(downloads[fetch_file_name(LastStep)]) = LastStep.checksum[1]

\* C14 (no partial download): after a fetch that failed, dest holds no
\* truncated file and no file whose digest differs from the declared one.
C14_NoPartialDownload ==
    (LastExecuted("Fetch") /\ ~LastEvent.ok)
        => LET content == downloads[fetch_file_name(LastStep)]
           IN \/ content = Absent
              \/ /\ content # Partial
                 /\ LastStep.checksum # NoneV => Digest(content) = LastStep.checksum[1]

\* C15 (failed extract is retried): an Extract step completes successfully only
\* with the archive unpacked in dest; the directory a failed extraction left
\* behind does not make a later extract a successful no-op.
C15_ExtractNotSkippedAfterFailure ==
    (LastExecuted("Extract") /\ LastEvent.ok)
        => pkgdirs[ExtractDirName(LastEvent.q)] \notin {Absent, EmptyDir}

\* C16 (failed Run): when the command of a Run step exits nonzero, the build
\* fails and the content store is left as it was: no outcome is written for
\* the step and the outcomes of the earlier steps remain.
C16_FailedRunNotStored ==
    [][(/\ Len(events') = Len(events) + 1
        /\ Last(events').kind = "Run" /\ Last(events').run /\ ~Last(events').ok)
          => (store' = store /\ bpc' = "idle" /\ lastResult' = "failed")]_vars

\* A Run step at position i >= 1 failed; the store holds the Success outcomes
\* of the i earlier steps of the package and nothing at position i.
C16_Witness ==
    /\ events # <<>> /\ LastEvent.kind = "Run" /\ LastEvent.run /\ ~LastEvent.ok
    /\ LastEvent.i >= 1
    /\ bpc = "idle" /\ lastResult = "failed"
    /\ LET steps == store[get_file_path(PkgNameOf(LastEvent.q))][VersionOf(LastEvent.q)]
       IN /\ Len(steps) = LastEvent.i
          /\ \A k \in 1..Len(steps) : steps[k].status = "Success"

\* C31 (Fetch is never served from the content store): in every build each
\* Fetch step is handed to execute_step; none is adopted from the store.
C31_FetchNeverAdopted ==
    \A e \in EventIdx : events[e].kind = "Fetch" => events[e].how = "executed"

\* C32 (exports after all pipelines): when the pipeline of a package fails,
\* the exports of no package of that build have been applied to the
\* composition root.
C32_ExportsAfterAllPipelines ==
    (bpc = "idle" /\ lastResult = "failed") => applied = <<>>

\* C37 (extract follows a changed fetch): in a build with force = false and
\* rebuild = false, when the Fetch step of a package is executed because its
\* url was edited, the Extract step after it unpacks the archive again: it is
\* executed and does not keep the directory that is already there.
C37_ExtractAfterChangedFetch ==
    \A a, b \in EventIdx :
        (/\ ~cfg.force /\ ~cfg.rebuild
         /\ a < b /\ events[a].q = events[b].q
         /\ events[a].kind = "Fetch" /\ events[a].how = "executed"
         /\ <<events[a].q, events[a].i, "url">> \in pre.edits
         /\ events[b].kind = "Extract")
            => (events[b].how = "executed" /\ ~events[b].selfskip)

\* ------------------------------------------------------------------------
\* The content store on its own: record and lookup with any arguments
\* ------------------------------------------------------------------------
\* A manager package name, which BuildCache::get_file_path has to sanitize.
StorePkgNames == {<<"go", ":", "x">>}
StoreHashes == {<<"h1">>, <<"unknown">>}
StoreResults ==
    [step_hash : StoreHashes, output_path : {Some(<<"out">>)}, status : {"Success", "Failed"}]

InitStore ==
    /\ store = [k \in {get_file_path(n) : n \in StorePkgNames} |-> EmptyFile(Versions)]
    /\ lookupLog = NoneV
    /\ nrec = 0

\* record(pkg, ver, idx, outcome): BuildCache::update_step_result (load, change, save).
Record(pkgname, version, step_index, result) ==
    /\ nrec < MaxRecords
    /\ store' = [store EXCEPT ![get_file_path(pkgname)] =
                    update_step_result(@, version, step_index, result)]
    /\ nrec' = nrec + 1
    /\ lookupLog' = NoneV
    /\ UNCHANGED notStore

\* lookup(pkg, ver, idx, fp): BuildCache::get_step_result.
Lookup(pkgname, version, step_index, step_hash) ==
    /\ lookupLog' = Some([pkgname |-> pkgname, version |-> version, idx |-> step_index,
                          fp |-> step_hash,
                          res |-> get_step_result(store[get_file_path(pkgname)], version,
                                                  step_index, step_hash)])
    /\ UNCHANGED <<store, nrec>>
    /\ UNCHANGED notStore

NextStore ==
    \/ \E n \in StorePkgNames, v \in Versions, i \in 0..MaxIdx, r \in StoreResults :
          Record(n, v, i, r)
    \/ \E n \in StorePkgNames, v \in Versions, i \in 0..MaxIdx, h \in StoreHashes :
          Lookup(n, v, i, h)

\* The build variables are not part of this specification.
IdleBuild == manifest = {"core/foo"} /\ InitBuild

StoreInit == InitStore /\ IdleBuild /\ IdleTopo /\ InitDownload /\ IdleSandbox /\ InitExports
    /\ IdleMore /\ IdleLate

SpecStore == StoreInit /\ [][NextStore]_vars

\* C3: lookup returns an outcome only if the position idx of (pkg, ver) holds an
\* outcome with fingerprint fp and status Success, and then returns that outcome;
\* a sentinel, another fingerprint or a missing position gives absent.
\* (Stated for the lookup just made: lookups do not change the store.)
StoredAt(l) == store[get_file_path(l.pkgname)][l.version]
C3_LookupOnlySuccess ==
    lookupLog # NoneV =>
        LET l == lookupLog[1]
            steps == StoredAt(l)
            present == l.idx + 1 <= Len(steps)
        IN /\ l.res # NoneV =>
                /\ present
                /\ steps[l.idx + 1].step_hash = l.fp
                /\ steps[l.idx + 1].status = "Success"
                /\ l.res[1] = steps[l.idx + 1]
           /\ (~present \/ steps[l.idx + 1] = Sentinel \/ steps[l.idx + 1].step_hash # l.fp)
                => l.res = NoneV

\* A lookup hit on a version whose array also holds a gap sentinel.
C3_Witness ==
    /\ lookupLog # NoneV
    /\ lookupLog[1].res # NoneV
    /\ \E i \in 1..Len(StoredAt(lookupLog[1])) : StoredAt(lookupLog[1])[i] = Sentinel

\* The content store under record operations alone.
NextRecord ==
    \E n \in StorePkgNames, v \in Versions, i \in 0..MaxIdx, r \in StoreResults :
        Record(n, v, i, r)

RecordInit == InitStore /\ IdleBuild /\ IdleTopo /\ InitDownload /\ IdleSandbox /\ InitExports
    /\ IdleMore /\ IdleLate

SpecRecord == RecordInit /\ [][NextRecord]_vars

\* The store before (unprimed) and after (primed) one record.
RecordPost(pkgname, version, step_index, result) ==
    LET key == get_file_path(pkgname)
        old == store[key][version]
        new == store'[key][version]
    IN /\ Len(new) >= step_index + 1
       /\ new[step_index + 1] = result
       /\ \A j \in 1..Len(old) : j # step_index + 1 => (j <= Len(new) /\ new[j] = old[j])
       /\ \A j \in (Len(old) + 1)..step_index :
             new[j].status = "Skipped" /\ new[j] = Sentinel
       /\ \A j \in 1..Len(new) : j <= Len(old) \/ j <= step_index + 1
       /\ \A v \in Versions \ {version} : store'[key][v] = store[key][v]
       /\ \A k \in DOMAIN store \ {key} : store'[k] = store[k]
\* C19 (record postcondition): record(pkg, ver, i, outcome) leaves the array
\* of (pkg, ver) with length >= i+1 and the outcome at position i; every other
\* position that was stored and every other version is unchanged, and the new
\* positions below i hold the Skipped sentinel.
C19_RecordPostcondition ==
    [][\A n \in StorePkgNames, v \in Versions, i \in 0..MaxIdx, r \in StoreResults :
          Record(n, v, i, r) => RecordPost(n, v, i, r)]_vars

\* Records at position 0 and then at position 2 of one version: the first
\* outcome is kept and the gap at position 1 holds the sentinel.
C19_Witness ==
    \E k \in DOMAIN store, v \in Versions :
        /\ Len(store[k][v]) = 3
        /\ store[k][v][1] # Sentinel
        /\ store[k][v][2] = Sentinel
        /\ store[k][v][3] # Sentinel
        /\ nrec = 2

\* ------------------------------------------------------------------------
\* Dependency scheduler: topological_sort / topo_sort_dfs (commands/cave/build.rs)
\* ------------------------------------------------------------------------
Nodes == {"a", "b", "c", "d"}
NodeSeq == <<"a", "b", "c", "d">>
AllEdges == Nodes \X Nodes

\* A Vec of dependency names, in recipe order (here: the order of NodeSeq).
DepsSeq(S) == SelectSeq(NodeSeq, LAMBDA n : n \in S)

\* Resolved maps: every query of the map is resolved, as resolve_dependencies
\* leaves it; at most MaxEdges declared dependencies, self-dependencies included.
ResolvedMaps ==
    {[n \in Nodes |-> DepsSeq({m \in Nodes : <<n, m>> \in E})] :
        E \in {X \in SUBSET AllEdges : Cardinality(X) <= MaxEdges}}

\* The locals of topological_sort, threaded through the recursion; err is the
\* Err(..) that `?` propagates.
TopoState0 == [sorted |-> <<>>, visited |-> {}, temp_visited |-> {}, err |-> FALSE]

\* topo_sort_dfs line 129: the query is on the current DFS path.
on_temp_visited_ignore(st) == st
on_temp_visited(st) == [st EXCEPT !.err = TRUE]

\* topo_sort_dfs lines 137-139: the query is finished.
leave_node_keep_temp(st, query) ==
    [st EXCEPT !.visited = @ \cup {query}, !.sorted = Append(@, query)]
leave_node(st, query) ==
    [st EXCEPT !.temp_visited = @ \ {query},
               !.visited = @ \cup {query},
               !.sorted = Append(@, query)]

RECURSIVE topo_sort_dfs(_, _, _)
RECURSIVE dfs_deps(_, _, _, _)

\* The for loop over version.build_dependencies, from position k on.
dfs_deps(deps, k, res, st) ==
    IF k > Len(deps) \/ st.err THEN st
    ELSE dfs_deps(deps, k + 1, res, topo_sort_dfs(deps[k], res, st))

topo_sort_dfs(query, res, st) ==
    IF query \in st.temp_visited THEN on_temp_visited(st)
    ELSE IF query \notin st.visited
    THEN LET st1 == [st EXCEPT !.temp_visited = @ \cup {query}]
             st2 == IF query \in DOMAIN res THEN dfs_deps(res[query], 1, res, st1) ELSE st1
         IN IF st2.err THEN st2 ELSE leave_node(st2, query)
    ELSE st

\* The for loop of topological_sort over resolved_packages.keys().
RECURSIVE topo_keys(_, _, _, _)
topo_keys(keys, k, res, st) ==
    IF k > Len(keys) \/ st.err THEN st
    ELSE topo_keys(keys, k + 1, res, topo_sort_dfs(keys[k], res, st))

topological_sort(res, keys) == topo_keys(keys, 1, res, TopoState0)

InitTopo ==
    /\ resolved \in ResolvedMaps
    /\ keyorder \in Perms(Nodes)
    /\ tpc = "start"
    /\ sorted = <<>>
    /\ troot0 \in {NoneV, Some({"old"})}
    /\ troot = troot0
    /\ tsteps = {}

\* execute_build lines 78-79: topological_sort(&resolved_packages)?
SortPackages ==
    /\ tpc = "start"
    /\ LET r == topological_sort(resolved, keyorder)
       IN /\ tpc' = IF r.err THEN "failed" ELSE "sorted"
          /\ sorted' = IF r.err THEN <<>> ELSE r.sorted
    /\ UNCHANGED <<resolved, keyorder, troot, troot0, tsteps>>
    /\ UNCHANGED notTopo

\* execute_sorted_pipelines: the composition root is created, then each package
\* of the order runs its pipeline and has its exports applied.
ExecuteSortedPipelines ==
    /\ tpc = "sorted"
    /\ tpc' = "done"
    /\ tsteps' = {sorted[i] : i \in 1..Len(sorted)}
    /\ troot' = Some((IF troot = NoneV THEN {} ELSE troot[1])
                     \cup {sorted[i] : i \in 1..Len(sorted)})
    /\ UNCHANGED <<resolved, keyorder, sorted, troot0>>
    /\ UNCHANGED notTopo

NextTopo ==
    \/ SortPackages
    \/ ExecuteSortedPipelines

TopoInit == InitTopo /\ InitStore /\ IdleBuild /\ InitDownload /\ IdleSandbox /\ InitExports
    /\ IdleMore /\ IdleLate

SpecTopo == TopoInit /\ [][NextTopo]_vars

\* A query reaches another through one or more declared dependencies.
DepRel == {e \in AllEdges : \E k \in 1..Len(resolved[e[1]]) : resolved[e[1]][k] = e[2]}
RECURSIVE ReachFrom(_, _)
ReachFrom(frontier, seen) ==
    LET next == {m \in Nodes : \E n \in frontier : <<n, m>> \in DepRel} \ seen
    IN IF next = {} THEN seen ELSE ReachFrom(next, seen \cup next)
Reaches(n) == ReachFrom({n}, {})
HasCycle == \E n \in Nodes : n \in Reaches(n)
Position(seq, n) == CHOOSE i \in 1..Len(seq) : seq[i] = n

\* C4 (topological correctness): for an acyclic resolved map, whatever the order
\* of its keys, the scheduler reports no cycle and emits every query exactly
\* once, each build dependency before the package that declares it.
C4_TopologicalOrder ==
    (tpc # "start" /\ ~HasCycle) =>
        /\ tpc # "failed"
        /\ Len(sorted) = Cardinality(Nodes)
        /\ \A n \in Nodes : \E i \in 1..Len(sorted) : sorted[i] = n
        /\ \A e \in DepRel : Position(sorted, e[2]) < Position(sorted, e[1])

\* The diamond a -> {b, c} -> d was sorted.
C4_Witness ==
    /\ tpc = "sorted"
    /\ resolved["a"] = <<"b", "c">>
    /\ resolved["b"] = <<"d">>
    /\ resolved["c"] = <<"d">>
    /\ resolved["d"] = <<>>

\* C5: with a cycle among the resolved build dependencies (a self-dependency
\* included) the build fails, no pipeline runs and the composition root is what
\* it was when the build was called.
C5_CycleIsFatal ==
    (tpc # "start" /\ HasCycle) =>
        /\ tpc = "failed"
        /\ tsteps = {}
        /\ troot = troot0

\* A build of a package that depends on itself failed, with a composition root
\* from an earlier build in place.
C5_Witness ==
    /\ tpc = "failed"
    /\ resolved["a"] = <<"a">>
    /\ troot0 # NoneV

\* ------------------------------------------------------------------------
\* Recipe-host download(url): starlark/api/stdlib.rs
\* ------------------------------------------------------------------------
\* What the server sends for a url.
Payload(url) == <<"body">> \o url

\* Cache::read within the TTL / Cache::write.
cache_read(cache, url) == cache[get_path(url)]
cache_write(cache, url, content) == [cache EXCEPT ![get_path(url)] = Some(content)]

\* A mutex no Arc refers to: what Arc::new(Mutex::new(())) yields.
FreshMutex ==
    CHOOSE m \in Mutexes :
        /\ \A u \in DUrls : download_locks[u] # Some(m)
        /\ \A t \in Threads : dlock[t] # m

\* download_locks.entry(url).or_insert_with(|| Arc::new(Mutex::new(())))
entry_insert_always(locks, url, fresh) == [locks EXCEPT ![url] = Some(fresh)]
entry_or_insert_with(locks, url, fresh) ==
    IF locks[url] = NoneV THEN [locks EXCEPT ![url] = Some(fresh)] ELSE locks

\* `return` of download(): the value goes to the recipe, _guard is dropped.
Return(t, value) ==
    /\ dret' = [dret EXCEPT ![t] = Some(value)]
    /\ dpc' = [dpc EXCEPT ![t] = "idle"]
    /\ mutex' = [m \in Mutexes |-> IF mutex[m] = t THEN 0 ELSE mutex[m]]
    /\ dlock' = [dlock EXCEPT ![t] = 0]

\* A recipe evaluated on thread t calls download(url); force is context.force.
DownloadCall(t, url, force) ==
    /\ dpc[t] = "idle"
    /\ ncalls < MaxCalls
    /\ dpc' = [dpc EXCEPT ![t] = "read1"]
    /\ durl' = [durl EXCEPT ![t] = url]
    /\ dforce' = [dforce EXCEPT ![t] = force]
    /\ ncalls' = ncalls + 1
    /\ UNCHANGED <<dcache, download_locks, mapguard, mutex, dlock, dret, requests>>
    /\ UNCHANGED notDownload

\* Lines 108-113: the first cache check, skipped under force.
CacheRead1(t) ==
    /\ dpc[t] = "read1"
    /\ IF ~dforce[t] /\ cache_read(dcache, durl[t]) # NoneV
       THEN Return(t, cache_read(dcache, durl[t])[1])
       ELSE dpc' = [dpc EXCEPT ![t] = "entry"] /\ UNCHANGED <<dret, mutex, dlock>>
    /\ UNCHANGED <<dcache, download_locks, mapguard, durl, dforce, requests, ncalls>>
    /\ UNCHANGED notDownload

\* Lines 117-121: entry() takes the map lock, the mutex is found or inserted,
\* the Arc is cloned.
EntryAcquire(t) ==
    /\ dpc[t] = "entry"
    /\ mapguard = 0
    /\ mapguard' = t
    /\ download_locks' = entry_or_insert_with(download_locks, durl[t], FreshMutex)
    /\ dlock' = [dlock EXCEPT ![t] = download_locks'[durl[t]][1]]
    /\ dpc' = [dpc EXCEPT ![t] = "cloned"]
    /\ UNCHANGED <<dcache, mutex, durl, dforce, dret, requests, ncalls>>
    /\ UNCHANGED notDownload

\* Line 122: the entry guard is a temporary of the `let lock = ...;` statement.
EntryRelease(t) ==
    /\ dpc[t] = "cloned"
    /\ mapguard = t
    /\ mapguard' = 0
    /\ dpc' = [dpc EXCEPT ![t] = "lock"]
    /\ UNCHANGED <<dcache, download_locks, mutex, durl, dforce, dlock, dret, requests, ncalls>>
    /\ UNCHANGED notDownload

\* Line 125: lock.lock() blocks until the mutex is free.
MutexLock(t) ==
    /\ dpc[t] = "lock"
    /\ mutex[dlock[t]] = 0
    /\ mutex' = [mutex EXCEPT ![dlock[t]] = t]
    /\ dpc' = [dpc EXCEPT ![t] = "read2"]
    /\ UNCHANGED <<dcache, download_locks, mapguard, durl, dforce, dlock, dret, requests, ncalls>>
    /\ UNCHANGED notDownload

\* Lines 127-135: the second cache check, skipped under force; on a miss the
\* request is sent.
CacheRead2(t) ==
    /\ dpc[t] = "read2"
    /\ IF ~dforce[t] /\ cache_read(dcache, durl[t]) # NoneV
       THEN Return(t, cache_read(dcache, durl[t])[1]) /\ UNCHANGED requests
       ELSE /\ dpc' = [dpc EXCEPT ![t] = "fetching"]
            /\ requests' = [requests EXCEPT ![durl[t]] = @ + 1]
            /\ UNCHANGED <<dret, mutex, dlock>>
    /\ UNCHANGED <<dcache, download_locks, mapguard, durl, dforce, ncalls>>
    /\ UNCHANGED notDownload

\* Lines 135-143: Downloader::download returned. On an error the empty string is
\* returned and nothing is cached; otherwise the payload is cached and returned.
FetchDone(t, ok) ==
    /\ dpc[t] = "fetching"
    /\ IF ok
       THEN /\ dcache' = cache_write(dcache, durl[t], Payload(durl[t]))
            /\ Return(t, Payload(durl[t]))
       ELSE /\ Return(t, <<>>)
            /\ UNCHANGED dcache
    /\ UNCHANGED <<download_locks, mapguard, durl, dforce, requests, ncalls>>
    /\ UNCHANGED notDownload

ThreadStep(t) ==
    \/ CacheRead1(t)
    \/ EntryAcquire(t)
    \/ EntryRelease(t)
    \/ MutexLock(t)
    \/ CacheRead2(t)
    \/ \E ok \in BOOLEAN : FetchDone(t, ok)

NextDownload ==
    \/ \E t \in Threads, u \in DUrls, f \in BOOLEAN : DownloadCall(t, u, f)
    \/ \E t \in Threads : CacheRead1(t)
    \/ \E t \in Threads : EntryAcquire(t)
    \/ \E t \in Threads : EntryRelease(t)
    \/ \E t \in Threads : MutexLock(t)
    \/ \E t \in Threads : CacheRead2(t)
    \/ \E t \in Threads, ok \in BOOLEAN : FetchDone(t, ok)

DownloadInit == InitDownload /\ InitStore /\ IdleBuild /\ IdleTopo /\ IdleSandbox /\ InitExports
    /\ IdleMore /\ IdleLate

SpecDownload == DownloadInit /\ [][NextDownload]_vars

\* C7 (download serialization): within the TTL window at most one network
\* request is issued for a url in total, however many threads call download.
C7_OneRequest == \A u \in DUrls : requests[u] <= 1

Fetching(u) == {t \in Threads : dpc[t] = "fetching" /\ durl[t] = u}
HoldsMutex(t) == \E m \in Mutexes : mutex[m] = t

\* C8: at most one thread at a time is fetching a given url; a thread fetches
\* only while it holds the mutex of the url; the thread that holds the map lock
\* neither waits for nor holds a mutex; and while a call is in progress some
\* thread can take a step.
C8_OneInFlight ==
    /\ \A u \in DUrls : Cardinality(Fetching(u)) <= 1
    /\ \A t \in Threads :
          dpc[t] = "fetching" =>
              /\ download_locks[durl[t]] # NoneV
              /\ mutex[download_locks[durl[t]][1]] = t
    /\ \A t \in Threads : mapguard = t => (dpc[t] # "lock" /\ ~HoldsMutex(t))
    /\ (\E t \in Threads : dpc[t] # "idle") => \E t \in Threads : ENABLED ThreadStep(t)

\* One thread fetches a url while another waits for the mutex of that url.
C8_Witness ==
    \E t1, t2 \in Threads :
        /\ t1 # t2 /\ durl[t1] = durl[t2]
        /\ dpc[t1] = "fetching" /\ dpc[t2] = "lock"

\* ------------------------------------------------------------------------
\* Sandbox builder: prepare_sandbox (commands/cave/run.rs) over
\* Bubblewrap (services/sandbox.rs)
\* ------------------------------------------------------------------------
BindPair(cave_target, host_source, bind_type) ==
    [cave_target |-> cave_target, host_source |-> host_source, bind_type |-> bind_type]

\* BTreeMap::insert on Bubblewrap.binds: the pair of a target replaces the old one.
binds_insert(b, pair) == {x \in b : x.cave_target # pair.cave_target} \cup {pair}

add_bind(b, typ, path) == binds_insert(b, BindPair(path, Some(path), typ))
add_map_bind(b, typ, host_path, cave_path) == binds_insert(b, BindPair(cave_path, Some(host_path), typ))
add_virtual(b, typ, path) == binds_insert(b, BindPair(path, NoneV, typ))

RECURSIVE add_binds(_, _, _, _)
add_binds(b, typ, paths, k) ==
    IF k > Len(paths) THEN b ELSE add_binds(add_bind(b, typ, paths[k]), typ, paths, k + 1)

bind_system_paths ==
    /\ sbpc = "bind_system_paths"
    /\ binds' = LET b1 == add_binds(binds, "RoBind", <<<<"usr">>, <<"lib">>>>, 1)
                    b2 == IF Lib64 \in existing THEN add_bind(b1, "RoBind", Lib64) ELSE b1
                IN add_binds(b2, "RoBind", <<<<"bin">>, <<"sbin">>, <<"etc">>, <<"sys">>>>, 1)
    /\ sbpc' = "bind_virtual_fs"
    /\ UNCHANGED <<xdg_runtime_dir, writable_pilocal, homedir, existing, dependency_dirs>>
    /\ UNCHANGED notSandbox

bind_virtual_fs ==
    /\ sbpc = "bind_virtual_fs"
    /\ binds' = add_virtual(add_virtual(add_virtual(add_virtual(binds,
                    "Proc", <<"proc">>), "Dev", <<"dev">>), "Tmpfs", <<"tmp">>), "Tmpfs", <<"run">>)
    /\ sbpc' = "bind_workspace_and_home"
    /\ UNCHANGED <<xdg_runtime_dir, writable_pilocal, homedir, existing, dependency_dirs>>
    /\ UNCHANGED notSandbox

\* cave.homedir is created when missing, so the map-bind is always made.
bind_workspace_and_home ==
    /\ sbpc = "bind_workspace_and_home"
    /\ binds' = add_map_bind(add_bind(binds, "Bind", Workspace), "Bind", homedir, HostHome)
    /\ sbpc' = "bind_pilocal_and_caches"
    /\ UNCHANGED <<xdg_runtime_dir, writable_pilocal, homedir, existing, dependency_dirs>>
    /\ UNCHANGED notSandbox

bind_pilocal_and_caches ==
    /\ sbpc = "bind_pilocal_and_caches"
    /\ binds' = LET bind_type == IF writable_pilocal THEN "Bind" ELSE "RoBind"
                    b1 == add_map_bind(binds, bind_type, HostPilocal, InternalPilocal)
                    b2 == IF CacheDir \in existing THEN add_bind(b1, bind_type, CacheDir) ELSE b1
                IN IF ConfigDir \in existing THEN add_bind(b2, "RoBind", ConfigDir) ELSE b2
    /\ sbpc' = "setup_xdg_runtime"
    /\ UNCHANGED <<xdg_runtime_dir, writable_pilocal, homedir, existing, dependency_dirs>>
    /\ UNCHANGED notSandbox

setup_xdg_runtime ==
    /\ sbpc = "setup_xdg_runtime"
    /\ binds' = IF xdg_runtime_dir # NoneV THEN add_bind(binds, "Bind", xdg_runtime_dir[1])
                ELSE binds
    /\ sbpc' = "bind_dependencies"
    /\ UNCHANGED <<xdg_runtime_dir, writable_pilocal, homedir, existing, dependency_dirs>>
    /\ UNCHANGED notSandbox

bind_dependencies ==
    /\ sbpc = "bind_dependencies"
    /\ binds' = add_binds(binds, "RoBind", SelectSeq(dependency_dirs, LAMBDA d : d \in existing), 1)
    /\ sbpc' = "done"
    /\ UNCHANGED <<xdg_runtime_dir, writable_pilocal, homedir, existing, dependency_dirs>>
    /\ UNCHANGED notSandbox

NextSandbox ==
    \/ bind_system_paths
    \/ bind_virtual_fs
    \/ bind_workspace_and_home
    \/ bind_pilocal_and_caches
    \/ setup_xdg_runtime
    \/ bind_dependencies

SandboxInit == InitSandbox /\ InitStore /\ IdleBuild /\ IdleTopo /\ InitDownload /\ InitExports
    /\ IdleMore /\ IdleLate

SpecSandbox == SandboxInit /\ [][NextSandbox]_vars

IsPrefix(root, path) == Len(root) <= Len(path) /\ SubSeq(path, 1, Len(root)) = root
\* The places of the sandbox that may be writable: the workspace root, the
\* composition root, the cache directory and the home.
WritableRoots == {Workspace, InternalPilocal, CacheDir, HostHome}
InsideWritableRoots(path) == \E r \in WritableRoots : IsPrefix(r, path)

\* C9 (sandbox containment): every read-write bind of an assembled sandbox has
\* its target inside the workspace root, the composition root, the cache
\* directory or the home; every bind outside them is read-only or a private
\* virtual mount, whatever the invoker's environment.
C9_Containment ==
    sbpc = "done" =>
        \A b \in binds :
            /\ b.bind_type = "Bind" => InsideWritableRoots(b.cave_target)
            /\ ~InsideWritableRoots(b.cave_target) =>
                  b.bind_type \in {"RoBind", "Proc", "Dev", "Tmpfs"}

\* ------------------------------------------------------------------------
\* Export materializer: apply_exports (commands/cave/build.rs) and
\* commands/cave/fs.rs, over a file system with symbolic links
\* ------------------------------------------------------------------------
\* Path resolution of the operating system: cur is the directory reached so
\* far, rest the components still to walk. The result is the kind of the entry
\* found ("none" when only the last component is missing, "error" when the path
\* cannot be walked) and the place of that entry. With follow, a symbolic link
\* in the last component is followed (stat), otherwise it is the result (lstat).
RECURSIVE WalkFrom(_, _, _, _, _)
WalkFrom(fs, cur, rest, follow, fuel) ==
    IF rest = <<>> THEN [kind |-> "dir", phys |-> cur]
    ELSE LET cand == Append(cur, Head(rest))
             last == Len(rest) = 1
         IN IF cand \notin DOMAIN fs
            THEN IF last THEN [kind |-> "none", phys |-> cand]
                 ELSE [kind |-> "error", phys |-> <<>>]
            ELSE CASE fs[cand].kind = "dir" -> WalkFrom(fs, cand, Tail(rest), follow, fuel)
                   [] fs[cand].kind = "file" ->
                        IF last THEN [kind |-> "file", phys |-> cand]
                        ELSE [kind |-> "error", phys |-> <<>>]
                   [] OTHER ->
                        IF last /\ ~follow THEN [kind |-> "symlink", phys |-> cand]
                        ELSE IF fuel = 0 THEN [kind |-> "error", phys |-> <<>>]
                        ELSE WalkFrom(fs, <<>>, fs[cand].target \o Tail(rest), follow, fuel - 1)

stat(fs, path) == WalkFrom(fs, <<>>, path, TRUE, MaxSymlinks)
symlink_metadata(fs, path) == WalkFrom(fs, <<>>, path, FALSE, MaxSymlinks)
exists(fs, path) == stat(fs, path).kind \in {"dir", "file"}
is_dir(fs, path) == stat(fs, path).kind = "dir"
is_symlink(fs, path) == symlink_metadata(fs, path).kind = "symlink"

FsResult(ok, fs) == [ok |-> ok, fs |-> fs]

\* fs::create_dir_all(path): every missing component is made, from the top.
RECURSIVE create_dir_all_from(_, _, _)
create_dir_all_from(fs, path, k) ==
    IF k > Len(path) THEN FsResult(TRUE, fs)
    ELSE LET prefix == SubSeq(path, 1, k)
             md == symlink_metadata(fs, prefix)
         IN IF is_dir(fs, prefix) THEN create_dir_all_from(fs, path, k + 1)
            ELSE IF md.kind = "none"
                 THEN create_dir_all_from(md.phys :> Dir @@ fs, path, k + 1)
                 ELSE FsResult(FALSE, fs)
create_dir_all(fs, path) == create_dir_all_from(fs, path, 1)

Without(fs, gone) == [q \in DOMAIN fs \ gone |-> fs[q]]

\* fs::remove_dir_all / fs::remove_file on the entry at phys.
remove_dir_all(fs, phys) == Without(fs, {q \in DOMAIN fs : IsPrefix(phys, q)})
remove_file(fs, phys) == Without(fs, {phys})

\* ensure_destination_clear(dest)
ensure_destination_clear(fs, dest) ==
    IF exists(fs, dest) \/ is_symlink(fs, dest)
    THEN LET metadata == symlink_metadata(fs, dest)
         IN IF metadata.kind = "dir" THEN FsResult(TRUE, remove_dir_all(fs, metadata.phys))
            ELSE FsResult(TRUE, remove_file(fs, metadata.phys))
    ELSE FsResult(TRUE, fs)

\* std::os::unix::fs::symlink(src, dest): a new entry of kind symlink.
symlink_as_copy(fs, src, dest) ==
    LET md == symlink_metadata(fs, dest)
    IN IF md.kind = "none" THEN FsResult(TRUE, md.phys :> Entry(stat(fs, src).kind, <<>>) @@ fs)
       ELSE FsResult(FALSE, fs)
symlink(fs, src, dest) ==
    LET md == symlink_metadata(fs, dest)
    IN IF md.kind = "none" THEN FsResult(TRUE, md.phys :> Entry("symlink", src) @@ fs)
       ELSE FsResult(FALSE, fs)

\* create_symlink(src, dest)
create_symlink(fs, src, dest) ==
    LET r1 == create_dir_all(fs, SubSeq(dest, 1, Len(dest) - 1))
    IN IF ~r1.ok THEN r1
       ELSE symlink(ensure_destination_clear(r1.fs, dest).fs, src, dest)

\* Export strings are token sequences: path components, "*", a final "/" of a
\* dest, and "@PACKAGES_DIR", which Config::resolve_packages_dir replaces by the
\* packages root.
LinkSrcs == {<<"bin", "*">>, <<"*">>, <<"bin", "*", "so">>, <<"bin", "gcc">>, <<"bin">>,
             <<"README">>, <<"missing">>, <<"@PACKAGES_DIR", "foo-1.0", "bin", "ld">>}
LinkDests == {<<>>, <<"bin">>, <<"bin", "/">>, <<"bin", "gcc">>, <<"lib", "x">>}
PathRels == {<<"bin">>, <<"lib">>, <<"bin", "sub">>, <<"lib", "x">>}

LinkExport(src, dest) == [kind |-> "Link", src |-> src, dest |-> dest, key |-> "", val |-> ""]
PathExport(rel) == [kind |-> "Path", src |-> <<>>, dest |-> rel, key |-> "", val |-> ""]
EnvExport(key, val) == [kind |-> "Env", src |-> <<>>, dest |-> <<>>, key |-> key, val |-> val]
Exports ==
    {LinkExport(src, dest) : src \in LinkSrcs, dest \in LinkDests}
    \cup {PathExport(rel) : rel \in PathRels}
    \cup {EnvExport("CC", "gcc")}

\* Path::join(rel) for the components of a relative string.
Components(str) == SelectSeq(str, LAMBDA c : c # "/")
ends_with_slash(str) == str # <<>> /\ Last(str) = "/"

\* resolve_src_path(pkg_dir, pattern)
resolve_src_path(pkg_dir, pattern) ==
    IF pattern # <<>> /\ Head(pattern) = PackagesDirStr
    THEN PackagesRoot \o Tail(pattern)
    ELSE pkg_dir \o Components(pattern)

\* The entries WalkDir yields below search_path with max_depth(1).
Children(fs, search_path) ==
    LET phys == stat(fs, search_path).phys
    IN {q \in DOMAIN fs : Len(q) = Len(phys) + 1 /\ IsPrefix(phys, q)}

\* apply_glob_filemap: the loop over the entries, in the order `entries`.
RECURSIVE glob_entries(_, _, _, _, _)
glob_entries(fs, search_path, dest_dir, entries, k) ==
    IF k > Len(entries) THEN FsResult(TRUE, fs)
    ELSE LET file_name == Last(entries[k])
             r == create_symlink(fs, Append(search_path, file_name), Append(dest_dir, file_name))
         IN IF ~r.ok THEN r ELSE glob_entries(r.fs, search_path, dest_dir, entries, k + 1)

apply_glob_filemap(fs, search_path, dest_rel, entries) ==
    IF is_dir(fs, search_path)
    THEN glob_entries(fs, search_path, PilocalDir \o Components(dest_rel), entries, 1)
    ELSE FsResult(TRUE, fs)

\* apply_single_filemap
apply_single_filemap(fs, search_path, dest_rel) ==
    LET dest_path == PilocalDir \o Components(dest_rel)
        final_dest == IF ends_with_slash(dest_rel) \/ is_dir(fs, dest_path)
                      THEN Append(dest_path, Last(search_path))
                      ELSE dest_path
    IN create_symlink(fs, search_path, final_dest)

\* apply_filemap_entry: the results for every order WalkDir can yield.
apply_filemap_entry(fs, pkg_dir, src_pattern, dest_rel) ==
    LET is_glob == \E i \in 1..Len(src_pattern) : src_pattern[i] = "*"
        base_pattern == IF is_glob /\ Last(src_pattern) = "*"
                        THEN SubSeq(src_pattern, 1, Len(src_pattern) - 1)
                        ELSE src_pattern
        search_path == resolve_src_path(pkg_dir, base_pattern)
    IN IF ~exists(fs, search_path) THEN {FsResult(TRUE, fs)}
       ELSE IF is_glob
            THEN {apply_glob_filemap(fs, search_path, dest_rel, entries) :
                     entries \in Perms(Children(fs, search_path))}
            ELSE {apply_single_filemap(fs, search_path, dest_rel)}

\* apply_exports, one export of the package: Link
ApplyLink(e) ==
    /\ e.kind = "Link"
    /\ nexports < MaxExports
    /\ \E r \in apply_filemap_entry(fsys, PkgDir, resolve_packages_dir(e.src), e.dest) :
          /\ fsys' = r.fs
          /\ xresult' = IF r.ok THEN "ok" ELSE "err"
    /\ nexports' = nexports + 1
    /\ UNCHANGED all_env
    /\ UNCHANGED notExports

\* apply_exports, one export of the package: Path (the result of create_dir_all
\* is dropped by .ok())
ApplyPath(e) ==
    /\ e.kind = "Path"
    /\ nexports < MaxExports
    /\ fsys' = create_dir_all(fsys, PilocalDir \o Components(e.dest)).fs
    /\ xresult' = "ok"
    /\ nexports' = nexports + 1
    /\ UNCHANGED all_env
    /\ UNCHANGED notExports

\* apply_exports, one export of the package: Env
ApplyEnv(e) ==
    /\ e.kind = "Env"
    /\ nexports < MaxExports
    /\ all_env' = all_env \cup {<<e.key, e.val>>}
    /\ xresult' = "ok"
    /\ nexports' = nexports + 1
    /\ UNCHANGED fsys
    /\ UNCHANGED notExports

NextExports ==
    \/ \E e \in Exports : ApplyLink(e)
    \/ \E e \in Exports : ApplyPath(e)
    \/ \E e \in Exports : ApplyEnv(e)

ExportsInit == InitExports /\ InitStore /\ IdleBuild /\ IdleTopo /\ InitDownload /\ IdleSandbox
    /\ IdleMore /\ IdleLate

SpecExports == ExportsInit /\ [][NextExports]_vars

UnderRoot == {q \in DOMAIN fsys : IsPrefix(PilocalDir, q) /\ q # PilocalDir}

\* C10 (symlink-only composition): starting from an empty composition root,
\* after any sequence of Link, glob Link, Path and Env exports every entry
\* under the composition root that is not a directory is a symbolic link.
C10_SymlinkOnly == \A q \in UnderRoot : fsys[q].kind \in {"dir", "symlink"}

\* A glob Link and a Path export were applied: the root holds a link to each
\* file of the package's bin directory, and a directory.
C10_Witness ==
    /\ PilocalDir \o <<"bin", "gcc">> \in UnderRoot
    /\ fsys[PilocalDir \o <<"bin", "gcc">>].kind = "symlink"
    /\ PilocalDir \o <<"bin", "ld">> \in UnderRoot
    /\ fsys[PilocalDir \o <<"bin", "ld">>].kind = "symlink"
    /\ PilocalDir \o <<"lib">> \in UnderRoot
    /\ fsys[PilocalDir \o <<"lib">>].kind = "dir"

\* ------------------------------------------------------------------------
\* Workspace descriptor and composition root: models/cave.rs,
\* commands/cave/add.rs, commands/cave/rem.rs, execute_build
\* ------------------------------------------------------------------------
CavePkgs == {"p1", "p2"}
VariantArgs == {NoneV, Some("dev")}
Range(seq) == {seq[i] : i \in 1..Len(seq)}

\* Vec::dedup: consecutive equal elements are reduced to the first of them.
RECURSIVE dedup(_)
dedup(v) ==
    IF Len(v) <= 1 THEN v
    ELSE IF v[1] = v[2] THEN dedup(Tail(v))
    ELSE <<v[1]>> \o dedup(Tail(v))

\* CaveSettings::merge, the packages: extend, then dedup.
merge(self_packages, other_packages) == dedup(self_packages \o other_packages)

\* Cave::get_effective_settings(variant_name): None is the Err of a missing variant.
get_effective_settings(packages, variant_packages, variant_name) ==
    IF variant_name = NoneV THEN Some(packages)
    ELSE IF variant_packages = NoneV THEN NoneV
    ELSE Some(merge(packages, variant_packages[1]))

\* Vec::contains / push of add.rs; Vec::retain of rem.rs.
push_if_absent(v, query) == IF query \in Range(v) THEN v ELSE Append(v, query)
retain_not(v, query) == SelectSeq(v, LAMBDA x : x # query)

\* cave add [:variant] query
CaveAdd(variant, query) ==
    /\ IF variant = NoneV
       THEN cv_packages' = push_if_absent(cv_packages, query) /\ UNCHANGED cv_variant
       ELSE /\ cv_variant' = Some(push_if_absent(IF cv_variant = NoneV THEN <<>> ELSE cv_variant[1],
                                                 query))
            /\ UNCHANGED cv_packages
    /\ UNCHANGED <<croot, last_order, eff_packages, eff_variant>>
    /\ UNCHANGED notCave

\* cave rem [:variant] query; a missing variant is an error and nothing is saved.
CaveRem(variant, query) ==
    /\ IF variant = NoneV
       THEN cv_packages' = retain_not(cv_packages, query) /\ UNCHANGED cv_variant
       ELSE /\ cv_variant # NoneV
            /\ cv_variant' = Some(retain_not(cv_variant[1], query))
            /\ UNCHANGED cv_packages
    /\ UNCHANGED <<croot, last_order, eff_packages, eff_variant>>
    /\ UNCHANGED notCave

\* cave build [:variant]: execute_build. The pipelines of the first nok packages
\* of the order succeed and their exports are applied; the build succeeds when
\* that is all of them. croot maps each composition-root directory
\* to the packages whose exports it holds.
CaveBuild(variant, nok) ==
    LET settings == get_effective_settings(cv_packages, cv_variant, variant)
    IN /\ settings # NoneV
       /\ \E sorted_packages \in Perms(Range(settings[1])) :
             /\ nok <= Len(sorted_packages)
             /\ croot' = [croot EXCEPT ![pilocal_path(CaveName, variant)] =
                                @ \cup {sorted_packages[i] : i \in 1..nok}]
             /\ last_order' = IF nok = Len(sorted_packages) THEN Some(sorted_packages)
                              ELSE last_order
       /\ eff_packages' = Some([defaults |-> cv_packages,
                                variant |-> IF variant = NoneV THEN <<>> ELSE cv_variant[1],
                                packages |-> settings[1]])
       /\ eff_variant' = variant
       /\ UNCHANGED <<cv_packages, cv_variant>>
       /\ UNCHANGED notCave

NextCave ==
    \/ \E variant \in VariantArgs, query \in CavePkgs : CaveAdd(variant, query)
    \/ \E variant \in VariantArgs, query \in CavePkgs : CaveRem(variant, query)
    \/ \E variant \in VariantArgs, nok \in 0..Cardinality(CavePkgs) : CaveBuild(variant, nok)

CaveInit ==
    /\ InitCave /\ IdleReapply /\ IdleShared /\ IdleLate
    /\ InitStore /\ IdleBuild /\ IdleTopo /\ InitDownload /\ IdleSandbox /\ InitExports

SpecCave == CaveInit /\ [][NextCave]_vars

\* C11: after any sequence of cave add, cave rem and build, every entry of the
\* composition root is an export of a package in the build order of the most
\* recent successful build.
C11_RootIsCurrentExports ==
    last_order # NoneV =>
        croot[pilocal_path(CaveName, eff_variant)] \subseteq Range(last_order[1])

\* C21: the composition root is per (workspace, variant): a variant and the
\* default use different directories, and a build of the variant leaves the
\* composition root of the default build as it was.
C21_RootPerVariant ==
    [][\A nok \in 0..Cardinality(CavePkgs) :
          CaveBuild(Some("dev"), nok) =>
              /\ pilocal_path(CaveName, Some("dev")) # pilocal_path(CaveName, NoneV)
              /\ croot'[pilocal_path(CaveName, NoneV)] = croot[pilocal_path(CaveName, NoneV)]]_vars

\* C20: the package list of effective(variant) holds every package of the
\* defaults and of the variant, and no package more than once.
C20_MergeUnionDeduped ==
    eff_packages # NoneV =>
        LET e == eff_packages[1]
        IN /\ Range(e.defaults) \subseteq Range(e.packages)
           /\ Range(e.variant) \subseteq Range(e.packages)
           /\ \A i, j \in 1..Len(e.packages) : i # j => e.packages[i] # e.packages[j]

\* ------------------------------------------------------------------------
\* One package file of the content store used by several processes:
\* services/cache/build.rs load / save
\* ------------------------------------------------------------------------
Writers == {"w1", "w2"}
SharedHashes == {<<"h1">>}
SharedResult(hash) == [step_hash |-> hash, output_path |-> Some(<<"out">>), status |-> "Success"]

\* BuildCache::load: a file that is missing or does not parse is the default.
\* sc_file.data of a truncated file is what the file held before File::create
\* truncated it; no reader can get at it.
load(file) == IF file.state = "complete" THEN file.data ELSE EmptyFile(Versions)

\* What the record of writer p is going to save.
Pending(p) == update_step_result(sc_loaded[p][1], sc_op[p].version, sc_op[p].idx,
                                 SharedResult(sc_op[p].hash))

\* update_step_result, first statement: self.load(pkgname).
SharedLoad(p, version, step_index, hash) ==
    /\ sc_pc[p] = "idle"
    /\ sc_op' = [sc_op EXCEPT ![p] = [kind |-> "record", version |-> version,
                                      idx |-> step_index, hash |-> hash]]
    /\ sc_loaded' = [sc_loaded EXCEPT ![p] = Some(load(sc_file))]
    /\ sc_pc' = [sc_pc EXCEPT ![p] = "loaded"]
    /\ UNCHANGED <<sc_file, sc_before, sc_result, sc_done>>
    /\ UNCHANGED notShared

\* save: fs::write opens the file with truncation ...
SharedTruncate(p) ==
    /\ sc_pc[p] = "loaded"
    /\ sc_file' = [sc_file EXCEPT !.state = "truncated"]
    /\ sc_pc' = [sc_pc EXCEPT ![p] = "writing"]
    /\ UNCHANGED <<sc_op, sc_loaded, sc_before, sc_result, sc_done>>
    /\ UNCHANGED notShared

\* ... and then writes the serialised cache; update_step_result returns Ok.
SharedWrite(p) ==
    /\ sc_pc[p] = "writing"
    /\ sc_file' = [state |-> "complete", data |-> Pending(p)]
    /\ sc_pc' = [sc_pc EXCEPT ![p] = "done"]
    /\ sc_result' = [sc_result EXCEPT ![p] = Some("ok")]
    /\ sc_done' = Append(sc_done, p)
    /\ UNCHANGED <<sc_op, sc_loaded, sc_before>>
    /\ UNCHANGED notShared

\* get_step_result by the reader: load, then the test on the loaded cache.
\* sc_before keeps the file as it was at the read and what the records in
\* progress at that moment save.
SharedLookup(version, step_index, hash) ==
    /\ sc_pc["r"] = "idle"
    /\ sc_op' = [sc_op EXCEPT !["r"] = [kind |-> "lookup", version |-> version,
                                        idx |-> step_index, hash |-> hash]]
    /\ sc_loaded' = [sc_loaded EXCEPT !["r"] = Some(load(sc_file))]
    /\ sc_before' = [sc_before EXCEPT !["r"] =
            Some([file |-> sc_file,
                  after |-> {Pending(w) : w \in {x \in Writers : sc_pc[x] = "writing"}}])]
    /\ sc_result' = [sc_result EXCEPT !["r"] =
            Some(get_step_result(load(sc_file), version, step_index, hash))]
    /\ sc_pc' = [sc_pc EXCEPT !["r"] = "done"]
    /\ UNCHANGED <<sc_file, sc_done>>
    /\ UNCHANGED notShared

NextShared ==
    \/ \E p \in Writers, v \in Versions, i \in 0..MaxIdx, h \in SharedHashes :
          SharedLoad(p, v, i, h)
    \/ \E p \in Writers : SharedTruncate(p)
    \/ \E p \in Writers : SharedWrite(p)
    \/ \E v \in Versions, i \in 0..MaxIdx, h \in SharedHashes : SharedLookup(v, i, h)

SharedInit ==
    /\ IdleShared /\ InitCave /\ IdleReapply /\ IdleLate
    /\ InitStore /\ IdleBuild /\ IdleTopo /\ InitDownload /\ IdleSandbox /\ InitExports

SpecShared == SharedInit /\ [][NextShared]_vars

\* C17 (reader never sees a partial file): a lookup that interleaves with a
\* record on the same package file works on the complete file as it was before
\* the record or on the complete file the record saves, and a lookup that read
\* a partially written file does not return an outcome.
C17_ReaderSeesCompleteFile ==
    sc_before["r"] # NoneV =>
        LET seen == sc_before["r"][1]
        IN /\ sc_loaded["r"][1] \in {seen.file.data} \cup seen.after
           /\ seen.file.state = "truncated" => sc_result["r"][1] = NoneV

\* C18 (record is atomic): when two writers have recorded outcomes for
\* different (version, index) positions of the same package and both returned
\* ok, both outcomes are retrievable by lookup.
C18_BothRecordsRetrievable ==
    (/\ \A p \in Writers : sc_result[p] = Some("ok")
     /\ <<sc_op["w1"].version, sc_op["w1"].idx>> # <<sc_op["w2"].version, sc_op["w2"].idx>>)
        => \A p \in Writers :
              get_step_result(load(sc_file), sc_op[p].version, sc_op[p].idx, sc_op[p].hash)
                  # NoneV

\* ------------------------------------------------------------------------
\* A build followed by a rebuild: apply_exports run twice with the same
\* exports on the same composition root (commands/cave/build.rs, fs.rs)
\* ------------------------------------------------------------------------
MaxReapply == 2
MaxPasses == 2

\* The export lists of the package: Vec<Export> of the recipe.
ExportLists ==
    UNION {[1..n -> Exports] : n \in 1..MaxReapply}

\* apply_exports: the loop over the exports of the package from export k on;
\* a failing Link ends it (`?`). The results for every order WalkDir can yield.
RECURSIVE apply_exports_from(_, _, _, _)
apply_exports_from(fs, env, exports, k) ==
    IF k > Len(exports) THEN {[ok |-> TRUE, fs |-> fs, env |-> env]}
    ELSE LET e == exports[k]
         IN CASE e.kind = "Link" ->
                    UNION {IF r.ok THEN apply_exports_from(r.fs, env, exports, k + 1)
                           ELSE {[ok |-> FALSE, fs |-> r.fs, env |-> env]} :
                           r \in apply_filemap_entry(fs, PkgDir, resolve_packages_dir(e.src),
                                                     e.dest)}
              [] e.kind = "Path" ->
                    apply_exports_from(create_dir_all(fs, PilocalDir \o Components(e.dest)).fs,
                                       env, exports, k + 1)
              [] OTHER ->
                    apply_exports_from(fs, env \cup {<<e.key, e.val>>}, exports, k + 1)
apply_exports(fs, env, exports) == apply_exports_from(fs, env, exports, 1)

\* What is found below the composition root: every path of up to two
\* components below it that names an entry, with the kind of the entry
\* (symlink_metadata) and, for a symbolic link, its target.
RootNames == {"bin", "lib", "gcc", "ld", "README", "x", "sub", "so"}
RootPaths == {<<a>> : a \in RootNames} \cup {<<a, b>> : a, b \in RootNames}
RootView(fs) ==
    {<<rel, fs[symlink_metadata(fs, PilocalDir \o rel).phys]>> :
        rel \in {q \in RootPaths :
                    symlink_metadata(fs, PilocalDir \o q).kind \in {"dir", "file", "symlink"}}}

\* One run of apply_exports on the exports of the package. The root after the
\* first run is kept in rx_first.
Reapply ==
    /\ rx_pass \in 0..(MaxPasses - 1)
    /\ \E r \in apply_exports(fsys, all_env, rx_exports) :
          /\ fsys' = r.fs
          /\ all_env' = r.env
          /\ xresult' = IF r.ok THEN "ok" ELSE "err"
          /\ rx_pass' = IF r.ok THEN rx_pass + 1 ELSE MaxPasses + 1
          /\ rx_first' = IF r.ok /\ rx_pass = 0 THEN Some(RootView(r.fs)) ELSE rx_first
    /\ nexports' = nexports + Len(rx_exports)
    /\ UNCHANGED rx_exports
    /\ UNCHANGED notReapply

NextReapply == Reapply

ReapplyInit ==
    /\ rx_exports \in ExportLists /\ rx_pass = 0 /\ rx_first = NoneV
    /\ InitExports /\ InitCave /\ IdleShared /\ IdleLate
    /\ InitStore /\ IdleBuild /\ IdleTopo /\ InitDownload /\ IdleSandbox

SpecReapply == ReapplyInit /\ [][NextReapply]_vars

HomeStr == "/home/u"
PilocalStr == "/home/u/.pilocal"
PilocalBin == "/home/u/.pilocal/bin"
CargoBin == "/home/u/.cargo/bin"
MixEscripts == "/home/u/.mix/escripts"
LocalBin == "/home/u/.local/bin"
DepBin == "/cache/packages/dep1/bin"

Put(m, k, v) == [x \in DOMAIN m \cup {k} |-> IF x = k THEN v ELSE m[x]]

\* Bubblewrap::set_env
set_env(m, name, value) == Put(m, name, value)

\* Bubblewrap::add_env_first(name, entry); entry is given by its parts. An
\* entry with a ':' in it is never equal to one of the split parts.
add_env_first(m, name, entry) ==
    LET val == IF name \in DOMAIN m THEN m[name] ELSE <<>>
        parts == SelectSeq(val, LAMBDA x : x # "")
        contains == Len(entry) = 1 /\ entry[1] \in {parts[i] : i \in 1..Len(parts)}
    IN Put(m, name, IF contains THEN parts ELSE entry \o parts)

\* The closure `resolve` of apply_custom_envs.
RECURSIVE resolve(_)
resolve(v) ==
    IF v = <<>> THEN <<>>
    ELSE (CASE Head(v) = "$/" -> <<PilocalStr, "/">>
            [] Head(v) = "$" -> <<PilocalStr>>
            [] Head(v) = "@HOME" -> <<HomeStr>>
            [] OTHER -> <<Head(v)>>) \o resolve(Tail(v))

\* for (k, v) in map { b.set_env(k, resolve(v)) }
set_all(m, map) ==
    [x \in DOMAIN m \cup DOMAIN map |-> IF x \in DOMAIN map THEN resolve(map[x]) ELSE m[x]]

\* apply_custom_envs: the package envs, then the `set` map of the workspace.
apply_custom_envs_pkg_last(m, pkg_envs, cv_envs) == set_all(set_all(m, cv_envs), pkg_envs)
apply_custom_envs(m, pkg_envs, cv_envs) == set_all(set_all(m, pkg_envs), cv_envs)

\* setup_environment
setup_environment(m) ==
    LET m1 == set_env(m, "HOME", <<HomeStr>>)
        m2 == set_env(m1, "USER", <<"u">>)
        m3 == set_env(m2, "PI_WORKSPACE", <<"/home/u/proj">>)
        m4 == set_env(m3, "PI_CAVE", <<CaveName>>)
        p1 == add_env_first(m4, "PATH", <<"/usr/bin", "/bin">>)
        p2 == add_env_first(p1, "PATH", <<LocalBin>>)
        p3 == add_env_first(p2, "PATH", <<CargoBin>>)
        p4 == add_env_first(p3, "PATH", <<MixEscripts>>)
    IN add_env_first(p4, "PATH", <<PilocalBin>>)

\* bind_dependencies, the PATH part: the bin directory of each dependency.
RECURSIVE add_dep_bins(_, _)
add_dep_bins(m, bins) ==
    IF bins = <<>> THEN m
    ELSE add_dep_bins(add_env_first(m, "PATH", <<Head(bins)>>), Tail(bins))

\* Environments as sets of maps: each name absent or with one of its values.
Maps(names, values) == UNION {[d -> values] : d \in SUBSET names}
HostPaths == {<<"/usr/bin", "/bin">>, <<"/opt/x/bin", "", "/usr/bin">>,
              <<PilocalBin, "/usr/bin">>, <<"/usr/local/bin", CargoBin, PilocalBin>>}
ExportValues == {<<"gcc">>, <<"$/", "lib">>, <<"@HOME", "/.x">>}
ExportKeys == {"CC", "LD_PRELOAD"}

\* Two invocations of prepare_sandbox with the same workspace and packages;
\* their host environments agree on PATH and XDG_RUNTIME_DIR, the host
\* variables that prepare_sandbox reads, and differ at most in the others.
InitEnv ==
    /\ \E path \in Maps({"PATH"}, HostPaths), xdg \in Maps({"XDG_RUNTIME_DIR"}, {<<"/run/user/1000">>}),
          o1, o2 \in Maps({"LD_PRELOAD"}, {<<"a.so">>, <<"b.so">>}) :
          host_vars = [i \in Invocations |->
                          [x \in DOMAIN path \cup DOMAIN xdg \cup (IF i = 1 THEN DOMAIN o1 ELSE DOMAIN o2) |->
                              IF x \in DOMAIN path THEN path[x]
                              ELSE IF x \in DOMAIN xdg THEN xdg[x]
                              ELSE IF i = 1 THEN o1[x] ELSE o2[x]]]
    /\ package_envs \in Maps(ExportKeys, ExportValues)
    /\ cave_envs \in Maps(ExportKeys, ExportValues)
    /\ dep_bins \in {<<>>, <<DepBin>>}
    /\ envs = [i \in Invocations |-> <<>>]
    /\ epc = "new"

\* Bubblewrap::new: envs starts as a copy of the environment of the host.
BubblewrapNew ==
    /\ epc = "new"
    /\ envs' = host_vars
    /\ epc' = "setup_xdg_runtime"
    /\ UNCHANGED <<host_vars, package_envs, cave_envs, dep_bins>>
    /\ UNCHANGED notEnv

\* setup_xdg_runtime, the set_env
SetupXdgRuntime ==
    /\ epc = "setup_xdg_runtime"
    /\ envs' = [i \in Invocations |->
                  IF "XDG_RUNTIME_DIR" \in DOMAIN host_vars[i]
                  THEN set_env(envs[i], "XDG_RUNTIME_DIR", host_vars[i]["XDG_RUNTIME_DIR"])
                  ELSE envs[i]]
    /\ epc' = "bind_dependencies"
    /\ UNCHANGED <<host_vars, package_envs, cave_envs, dep_bins>>
    /\ UNCHANGED notEnv

BindDependencies ==
    /\ epc = "bind_dependencies"
    /\ envs' = [i \in Invocations |-> add_dep_bins(envs[i], dep_bins)]
    /\ epc' = "setup_environment"
    /\ UNCHANGED <<host_vars, package_envs, cave_envs, dep_bins>>
    /\ UNCHANGED notEnv

SetupEnvironment ==
    /\ epc = "setup_environment"
    /\ envs' = [i \in Invocations |-> setup_environment(envs[i])]
    /\ epc' = "apply_custom_envs"
    /\ UNCHANGED <<host_vars, package_envs, cave_envs, dep_bins>>
    /\ UNCHANGED notEnv

ApplyCustomEnvs ==
    /\ epc = "apply_custom_envs"
    /\ envs' = [i \in Invocations |-> apply_custom_envs(envs[i], package_envs, cave_envs)]
    /\ epc' = "done"
    /\ UNCHANGED <<host_vars, package_envs, cave_envs, dep_bins>>
    /\ UNCHANGED notEnv

NextEnv ==
    \/ BubblewrapNew
    \/ SetupXdgRuntime
    \/ BindDependencies
    \/ SetupEnvironment
    \/ ApplyCustomEnvs

\* The variables of the components modelled before this one, all idle.
IdleEarly ==
    /\ InitStore /\ IdleBuild /\ IdleTopo /\ InitDownload /\ IdleSandbox /\ InitExports
    /\ IdleMore

EnvInit == InitEnv /\ IdleEarly /\ IdleVc /\ IdleRepo /\ IdleMain /\ IdleSelector /\ IdleBest /\ IdleResolve /\ IdleDeps /\ IdlePurge /\ IdleLife

SpecEnv == EnvInit /\ [][NextEnv]_vars

\* C22 (`set` overrides package envs): for every key that is both in a
\* package-provided Env export and in the effective `set` map, the sandbox
\* environment carries the `set` value, placeholders substituted.
C22_SetOverridesPackageEnv ==
    epc = "done" =>
        \A i \in Invocations, k \in DOMAIN package_envs \cap DOMAIN cave_envs :
            k \in DOMAIN envs[i] /\ envs[i][k] = resolve(cave_envs[k])

\* A key is in both maps with different values, the `set` value holding a
\* placeholder, and the environment has been completed.
C22_Witness ==
    /\ epc = "done"
    /\ \E k \in DOMAIN package_envs \cap DOMAIN cave_envs :
          /\ package_envs[k] # cave_envs[k]
          /\ resolve(cave_envs[k]) # cave_envs[k]
          /\ envs[1][k] = resolve(cave_envs[k])

\* C23 (PATH construction): for every host PATH the sandbox PATH begins with
\* <composition-root>/bin, <home>/.cargo/bin, <home>/.mix/escripts,
\* <home>/.local/bin, /usr/bin, /bin, in this order.
C23_PathOrder ==
    epc = "done" =>
        \A i \in Invocations :
            /\ "PATH" \in DOMAIN envs[i]
            /\ Len(envs[i]["PATH"]) >= 6
            /\ SubSeq(envs[i]["PATH"], 1, 6) =
                   <<PilocalBin, CargoBin, MixEscripts, LocalBin, "/usr/bin", "/bin">>

\* C24 (environment isolation): two invocations whose host environments
\* differ only in variables outside the allowlist produce identical sandbox
\* environments.
C24_EnvIsolation == epc = "done" => envs[1] = envs[2]

\* CaveSettings::merge, the `unset` list: the other list is appended and
\* Vec::dedup drops repeated neighbours.
merge_unset(self_unset, other_unset) == dedup(self_unset \o other_unset)

\* The `unset` lists of the workspace: its defaults and its variant.
DefaultUnset == <<"LD_PRELOAD">>
VariantUnset == <<"LD_PRELOAD", "CC">>
EffectiveUnset == merge_unset(DefaultUnset, VariantUnset)

\* C40 (`unset` is honoured): no key of the effective `unset` list is in the
\* environment of the sandbox, also when the host environment defines it.
\* Keys that the effective `set` map defines as well are left aside.
C40_UnsetKeysAbsent ==
    epc = "done" =>
        \A i \in Invocations, k \in Range(EffectiveUnset) \ DOMAIN cave_envs :
            k \notin DOMAIN envs[i]

\* ------------------------------------------------------------------------
\* Version cache of one package of one repository, with a thread that gets
\* the package's versions and a thread that syncs the repository:
\* models/version_entry.rs, services/sync.rs
\* A list is named by the clock value at which it was produced.
\* ------------------------------------------------------------------------
MaxGets == 2
MaxSyncs == 1

SyncOutcomes == {"ok", "failed", "empty"}

\* The files a previous run of the program can have left.
InitVc ==
    /\ vl_disk \in {NoneV, Some(0)}
    /\ pl_disk \in {NoneV, Some(0)}
    /\ vl_mem = NoneV /\ clock = 0
    /\ gpc = "idle" /\ gforce = FALSE /\ gloaded = NoneV /\ gret = NoneV /\ gsyncfailed = FALSE
    /\ spc = "idle" /\ sbegin = 0 /\ ngets = 0 /\ nsyncs = 0

\* VersionList::get_for_package up to the return from the in-memory map.
GetForPackage(force) ==
    /\ gpc \in {"idle", "returned"}
    /\ ngets < MaxGets
    /\ ngets' = ngets + 1
    /\ gforce' = force
    /\ gsyncfailed' = FALSE
    /\ gloaded' = NoneV
    /\ IF ~force /\ IsSome(vl_mem)
       THEN gret' = vl_mem /\ gpc' = "returned"
       ELSE gret' = NoneV /\ gpc' = "try_load"
    /\ UNCHANGED <<vl_disk, vl_mem, pl_disk, clock, spc, sbegin, nsyncs>>
    /\ UNCHANGED notVc

\* try_load_from_disk: the read of the version file.
TryLoadFromDisk ==
    /\ gpc = "try_load"
    /\ IF ~gforce /\ IsSome(vl_disk)
       THEN gloaded' = vl_disk /\ gpc' = "insert"
       ELSE gloaded' = NoneV /\ gpc' = "sync"
    /\ UNCHANGED <<vl_disk, vl_mem, pl_disk, clock, gforce, gret, gsyncfailed, spc, sbegin,
                   ngets, nsyncs>>
    /\ UNCHANGED notVc

\* sync_and_load: the call of sync_package or sync_manager_package, whose
\* error is logged; save_versions writes nothing when no version was found.
SyncPackage(outcome) ==
    /\ gpc = "sync"
    /\ gpc' = "load"
    /\ gsyncfailed' = (outcome = "failed")
    /\ IF outcome = "ok"
       THEN clock' = clock + 1 /\ vl_disk' = Some(clock + 1)
       ELSE UNCHANGED <<clock, vl_disk>>
    /\ UNCHANGED <<vl_mem, pl_disk, gforce, gloaded, gret, spc, sbegin, ngets, nsyncs>>
    /\ UNCHANGED notVc

\* sync_and_load: VersionList::load after the sync, whatever the sync returned.
LoadAfterSync ==
    /\ gpc = "load"
    /\ IF IsSome(vl_disk)
       THEN gloaded' = vl_disk /\ gpc' = "insert" /\ UNCHANGED gret
       ELSE gloaded' = NoneV /\ gpc' = "returned" /\ gret' = NoneV
    /\ UNCHANGED <<vl_disk, vl_mem, pl_disk, clock, gforce, gsyncfailed, spc, sbegin,
                   ngets, nsyncs>>
    /\ UNCHANGED notVc

\* version_lists.insert(key, list) and the return of the list, in
\* try_load_from_disk and in sync_and_load.
InsertLoaded ==
    /\ gpc = "insert"
    /\ vl_mem' = gloaded
    /\ gret' = gloaded
    /\ gpc' = "returned"
    /\ UNCHANGED <<vl_disk, pl_disk, clock, gforce, gloaded, gsyncfailed, spc, sbegin,
                   ngets, nsyncs>>
    /\ UNCHANGED notVc

\* sync_repo is entered.
SyncRepoBegin ==
    /\ spc \in {"idle", "returned", "failed"}
    /\ nsyncs < MaxSyncs
    /\ nsyncs' = nsyncs + 1
    /\ clock' = clock + 1
    /\ sbegin' = clock + 1
    /\ spc' = "clear_mem"
    /\ UNCHANGED <<vl_disk, vl_mem, pl_disk, gpc, gforce, gloaded, gret, gsyncfailed, ngets>>
    /\ UNCHANGED notVc

\* clear_repo_cache: package_lists.remove and version_lists.retain.
ClearMemory ==
    /\ spc = "clear_mem"
    /\ vl_mem' = NoneV
    /\ spc' = "clear_disk"
    /\ UNCHANGED <<vl_disk, pl_disk, clock, gpc, gforce, gloaded, gret, gsyncfailed, sbegin,
                   ngets, nsyncs>>
    /\ UNCHANGED notVc

\* clear_repo_cache: the version files of the repository are removed.
ClearDisk ==
    /\ spc = "clear_disk"
    /\ vl_disk' = NoneV
    /\ spc' = "save"
    /\ UNCHANGED <<vl_mem, pl_disk, clock, gpc, gforce, gloaded, gret, gsyncfailed, sbegin,
                   ngets, nsyncs>>
    /\ UNCHANGED notVc

\* sync_repo: the entries are collected and the package list is saved.
SavePackageList(ok) ==
    /\ spc = "save"
    /\ IF ok
       THEN clock' = clock + 1 /\ pl_disk' = Some(clock + 1) /\ spc' = "returned"
       ELSE UNCHANGED <<clock, pl_disk>> /\ spc' = "failed"
    /\ UNCHANGED <<vl_disk, vl_mem, gpc, gforce, gloaded, gret, gsyncfailed, sbegin,
                   ngets, nsyncs>>
    /\ UNCHANGED notVc

NextVc ==
    \/ \E force \in BOOLEAN : GetForPackage(force)
    \/ TryLoadFromDisk
    \/ \E outcome \in SyncOutcomes : SyncPackage(outcome)
    \/ LoadAfterSync
    \/ InsertLoaded
    \/ SyncRepoBegin
    \/ ClearMemory
    \/ ClearDisk
    \/ \E ok \in BOOLEAN : SavePackageList(ok)

VcInit == InitVc /\ IdleEarly /\ IdleEnv /\ IdleRepo /\ IdleMain /\ IdleSelector /\ IdleBest /\ IdleResolve /\ IdleDeps /\ IdlePurge /\ IdleLife

SpecVc == VcInit /\ [][NextVc]_vars

\* C25: a get whose sync failed returns absent, also a forced get with an
\* older version file on disk.
C25_FailedSyncReturnsAbsent ==
    (gpc = "returned" /\ gsyncfailed) => gret = NoneV

ProducedBefore(list, t) == IsSome(list) /\ list[1] < t

\* C26: after sync_repo has returned, neither the in-memory map nor the
\* files on disk hold a list produced before that sync began, also when a
\* get of the version cache runs concurrently.
C26_SyncPurgesOldLists ==
    spc = "returned" =>
        /\ ~ProducedBefore(vl_mem, sbegin)
        /\ ~ProducedBefore(vl_disk, sbegin)
        /\ ~ProducedBefore(pl_disk, sbegin)

\* ------------------------------------------------------------------------
\* repo add: commands/repo/add.rs, models/repository.rs
\* ------------------------------------------------------------------------
MaxAdds == 3

RepoDirs == {"/a", "/b", "/c"}
RepoNames == {"main", "extra"}
\* The paths a user can give: a directory, a symlink to one, a missing path.
RawPaths == RepoDirs \cup {"/a_link", "/nowhere"}

\* fs::canonicalize: none when the path does not exist.
canonicalize(path) ==
    IF path \in RepoDirs THEN Some(path)
    ELSE IF path = "/a_link" THEN Some("/a")
    ELSE NoneV

\* load_repo_metadata
load_repo_metadata(abs_path) == dir_meta[abs_path]

validate_path_only(repositories, name, path) ==
    IF \E i \in DOMAIN repositories : repositories[i].path = path
    THEN "already exists at path"
    ELSE "ok"

\* validate_new_repo
validate_new_repo(repositories, name, path) ==
    IF \E i \in DOMAIN repositories : repositories[i].path = path
    THEN "already exists at path"
    ELSE IF \E i \in DOMAIN repositories : repositories[i].name = name
    THEN "name already exists"
    ELSE "ok"

InitRepo ==
    /\ repos_file = <<>>
    /\ dir_meta \in [RepoDirs -> {NoneV} \cup {Some(n) : n \in RepoNames}]
    /\ add_path = NoneV /\ add_before = <<>>
    /\ add_result = "none" /\ repo_synced = {} /\ nadds = 0

\* execute_repo_add; saved: Repositories::save returned Ok.
ExecuteRepoAdd(path, saved) ==
    /\ nadds < MaxAdds
    /\ nadds' = nadds + 1
    /\ add_path' = Some(path)
    /\ add_before' = repos_file
    /\ LET abs_path == canonicalize(path)
           metadata == load_repo_metadata(abs_path[1])
           valid == validate_new_repo(repos_file, metadata[1], abs_path[1])
       IN  IF ~IsSome(abs_path)
           THEN /\ add_result' = "Failed to get absolute path"
                /\ UNCHANGED <<repos_file, repo_synced>>
           ELSE IF ~IsSome(metadata)
           THEN /\ add_result' = "pi.repo.json missing"
                /\ UNCHANGED <<repos_file, repo_synced>>
           ELSE IF valid # "ok"
           THEN /\ add_result' = valid
                /\ UNCHANGED <<repos_file, repo_synced>>
           ELSE IF ~saved
           THEN /\ add_result' = "Failed to save repositories"
                /\ UNCHANGED <<repos_file, repo_synced>>
           ELSE /\ add_result' = "ok"
                /\ repos_file' = Append(repos_file, [path |-> abs_path[1], name |-> metadata[1]])
                /\ repo_synced' = repo_synced \cup {metadata[1]}
    /\ UNCHANGED dir_meta
    /\ UNCHANGED notRepo

NextRepo == \E path \in RawPaths, saved \in BOOLEAN : ExecuteRepoAdd(path, saved)

RepoInit == InitRepo /\ IdleEarly /\ IdleEnv /\ IdleVc /\ IdleMain /\ IdleSelector /\ IdleBest /\ IdleResolve /\ IdleDeps /\ IdlePurge /\ IdleLife

SpecRepo == RepoInit /\ [][NextRepo]_vars

\* The last add named a directory without pi.repo.json, or one whose path or
\* name is already configured.
AddMustFail ==
    /\ IsSome(add_path)
    /\ IsSome(canonicalize(add_path[1]))
    /\ LET dir == canonicalize(add_path[1])[1]
       IN  \/ ~IsSome(dir_meta[dir])
           \/ \E i \in DOMAIN add_before :
                 \/ add_before[i].path = dir
                 \/ add_before[i].name = dir_meta[dir][1]

\* C27: the configured repositories have pairwise distinct names and
\* pairwise distinct paths, and an add that duplicates a name or a path, or
\* whose directory has no pi.repo.json, fails and leaves the persisted list
\* unchanged.
C27_ReposDistinct ==
    /\ \A i, j \in DOMAIN repos_file :
          i # j => /\ repos_file[i].name # repos_file[j].name
                   /\ repos_file[i].path # repos_file[j].path
    /\ AddMustFail => (add_result # "ok" /\ repos_file = add_before)

C27_Witness ==
    /\ Len(repos_file) = 2
    /\ AddMustFail
    /\ add_path = Some("/a_link")
    /\ \E i \in DOMAIN add_before : add_before[i].path = "/a"

\* ------------------------------------------------------------------------
\* The command guard of a pi process: main.rs
\* ------------------------------------------------------------------------
MaxCommands == 3

PiCommands ==
    {"version", "repo add", "repo sync", "repo list",
     "package sync", "package list", "package info", "package resolve",
     "cave init", "cave info", "cave add", "cave rem", "cave resolve", "cave build",
     "cave run", "disk info", "disk clean", "disk uninstall", "devel test"}

\* The stores a command can change.
WorldStores == {"manifest", "repositories", "cache", "root"}

WriteCommands ==
    {"cave init", "cave add", "cave rem", "cave build", "cave run",
     "repo add", "repo sync", "package sync", "disk clean", "disk uninstall"}

\* Config::is_inside_cave: std::env::var("PI_CAVE").is_ok()
is_inside_cave(env_pi_cave) == IsSome(env_pi_cave)

validate_allow_all(command) == TRUE

\* validate_command_in_cave: the commands allowed while PI_CAVE is set.
validate_command_in_cave(command) ==
    command \in {"version", "repo list", "package list", "package info",
                 "package resolve", "cave info"}

\* route_command: the stores the handler of a command writes.
Touches(command) ==
    CASE command \in {"cave init", "cave add", "cave rem"} -> {"manifest"}
      [] command = "repo add" -> {"repositories", "cache"}
      [] command \in {"repo sync", "package sync", "package list", "package info",
                      "package resolve", "cave resolve", "disk clean", "devel test"}
            -> {"cache"}
      [] command \in {"cave build", "cave run"} -> {"cache", "root"}
      [] command = "disk uninstall" -> {"repositories", "cache", "root"}
      [] OTHER -> {}

InitMain ==
    /\ pi_cave \in {NoneV, Some(CaveName), Some("")}
    /\ cmd = "none" /\ exit_code = 0
    /\ world = [s \in WorldStores |-> 0]
    /\ world_before = [s \in WorldStores |-> 0]
    /\ was_inside = FALSE
    /\ cache_dirs \in BOOLEAN
    /\ ncmds = 0

\* main: one pi process running `command`; the handler writes `written`
\* and ends well (ok) or not.
Main(command, written, ok) ==
    /\ ncmds < MaxCommands
    /\ ncmds' = ncmds + 1
    /\ cmd' = command
    /\ world_before' = world
    /\ was_inside' = IsSome(pi_cave)
    /\ cache_dirs' = TRUE
    /\ written \subseteq Touches(command)
    /\ ok => written = Touches(command)
    /\ IF is_inside_cave(pi_cave) /\ ~validate_command_in_cave(command)
       THEN /\ exit_code' = 1
            /\ UNCHANGED <<world, pi_cave>>
       ELSE /\ exit_code' = IF ok THEN 0 ELSE 1
            /\ world' = [s \in WorldStores |-> IF s \in written THEN world[s] + 1 ELSE world[s]]
            /\ pi_cave' = IF command = "cave run" /\ ok THEN Some(CaveName) ELSE pi_cave
    /\ UNCHANGED notMain

\* The sandboxed process of `cave run` ends.
SandboxExit ==
    /\ cmd = "cave run" /\ exit_code = 0 /\ IsSome(pi_cave) /\ ~was_inside
    /\ pi_cave' = NoneV
    /\ cmd' = "none"
    /\ UNCHANGED <<exit_code, world, world_before, was_inside, cache_dirs, ncmds>>
    /\ UNCHANGED notMain

NextMain ==
    \/ \E command \in PiCommands, written \in SUBSET WorldStores, ok \in BOOLEAN :
          Main(command, written, ok)
    \/ SandboxExit

MainInit == InitMain /\ IdleEarly /\ IdleEnv /\ IdleVc /\ IdleRepo /\ IdleSelector /\ IdleBest /\ IdleResolve /\ IdleDeps /\ IdlePurge /\ IdleLife

SpecMain == MainInit /\ [][NextMain]_vars

MaxQueryLen == 4
MaxNameLen == 3
MaxVersionLen == 2

SeqsUpTo(chars, n) == UNION {[1..k -> chars] : k \in 0..n}

\* str::find(c): index of the first c, 0 when there is none.
Find(s, c) ==
    IF \E i \in DOMAIN s : s[i] = c
    THEN CHOOSE i \in DOMAIN s : s[i] = c /\ \A j \in 1..(i - 1) : s[j] # c
    ELSE 0

parse_with(s, colon_check) ==
    LET eq == Find(s, "=")
        version == IF eq > 0 THEN Some(SubSeq(s, eq + 1, Len(s))) ELSE NoneV
        rest0 == IF eq > 0 THEN SubSeq(s, 1, eq - 1) ELSE s
        idx == Find(rest0, "/")
        c_idx == Find(rest0, ":")
        has_recipe == idx > 0 /\ ~(colon_check /\ c_idx > 0 /\ c_idx < idx)
        recipe == IF has_recipe THEN Some(SubSeq(rest0, 1, idx - 1)) ELSE NoneV
        rest == IF has_recipe THEN SubSeq(rest0, idx + 1, Len(rest0)) ELSE rest0
        p_idx == Find(rest, ":")
        prefix == IF p_idx > 0 THEN Some(SubSeq(rest, 1, p_idx - 1)) ELSE NoneV
        package == IF p_idx > 0 THEN SubSeq(rest, p_idx + 1, Len(rest)) ELSE rest
    IN  IF package = <<>>
        THEN NoneV
        ELSE Some([recipe |-> recipe, prefix |-> prefix, package |-> package,
                   version |-> version])

\* parse that takes the first '/' as the end of the recipe in every case.
parse_first_slash(s) == parse_with(s, FALSE)

\* PackageSelector::parse
parse(s) == parse_with(s, TRUE)

\* [repo/][prefix:]name[=version]
format(sel) ==
    (IF IsSome(sel.recipe) THEN sel.recipe[1] \o <<"/">> ELSE <<>>)
    \o (IF IsSome(sel.prefix) THEN sel.prefix[1] \o <<":">> ELSE <<>>)
    \o sel.package
    \o (IF IsSome(sel.version) THEN <<"=">> \o sel.version[1] ELSE <<>>)

\* The repository the selectors are resolved in.
SelRepoName == <<"r">>
SelPackages == {<<"p">>, <<"p", "p">>}
SelManagers == {<<"m">>}

\* should_skip_repo and try_resolve_in_repo, given that the package has a
\* version for the target.
CanResolve(sel) ==
    /\ IsSome(sel.recipe) => sel.recipe[1] = SelRepoName
    /\ IF IsSome(sel.prefix)
       THEN sel.prefix[1] \in SelManagers
       ELSE sel.package \in SelPackages

\* Components the resolver can resolve: the repository or none, then a
\* package of the repository, or a manager of the repository with a name the
\* manager is asked for.
ResolvableComponents ==
    {[recipe |-> r, prefix |-> NoneV, package |-> n, version |-> v] :
        r \in {NoneV, Some(SelRepoName)}, n \in SelPackages,
        v \in {NoneV} \cup {Some(x) : x \in SeqsUpTo({"1", "="}, MaxVersionLen)}}
    \cup
    {[recipe |-> r, prefix |-> Some(m), package |-> n, version |-> v] :
        r \in {NoneV, Some(SelRepoName)}, m \in SelManagers,
        n \in SeqsUpTo({"p", "/", ":"}, MaxNameLen) \ {<<>>},
        v \in {NoneV} \cup {Some(x) : x \in SeqsUpTo({"1", "="}, MaxVersionLen)}}

Queries4 == SeqsUpTo({"p", "m", "r", "/", ":", "="}, MaxQueryLen)

\* Either a query string to parse, or the components of a selector.
InitSelector ==
    /\ \/ /\ sl_query \in {Some(q) : q \in Queries4}
          /\ sl_sel = NoneV
          /\ slpc = "parse"
       \/ /\ sl_query = NoneV
          /\ sl_sel \in {Some(c) : c \in ResolvableComponents}
          /\ slpc = "resolve"
    /\ sl_resolved = FALSE
    /\ sl_back = NoneV

\* resolve_single_query: the query is parsed.
ParseQuery ==
    /\ slpc = "parse"
    /\ sl_sel' = parse(sl_query[1])
    /\ slpc' = IF IsSome(parse(sl_query[1])) THEN "resolve" ELSE "invalid"
    /\ UNCHANGED <<sl_query, sl_resolved, sl_back>>
    /\ UNCHANGED notSelector

\* resolve_query_internal
ResolveQuery ==
    /\ slpc = "resolve"
    /\ sl_resolved' = CanResolve(sl_sel[1])
    /\ slpc' = "format"
    /\ UNCHANGED <<sl_query, sl_sel, sl_back>>
    /\ UNCHANGED notSelector

\* The selector is formatted and the text parsed.
FormatAndParse ==
    /\ slpc = "format"
    /\ sl_back' = parse(format(sl_sel[1]))
    /\ slpc' = "done"
    /\ UNCHANGED <<sl_query, sl_sel, sl_resolved>>
    /\ UNCHANGED notSelector

NextSelector == ParseQuery \/ ResolveQuery \/ FormatAndParse

SelectorInit == InitSelector /\ IdleEarly /\ IdleEnv /\ IdleVc /\ IdleRepo /\ IdleMain /\ IdleBest /\ IdleResolve /\ IdleDeps /\ IdlePurge /\ IdleLife

SpecSelector == SelectorInit /\ [][NextSelector]_vars

\* C29: a selector the resolver can resolve, formatted as
\* [repo/][prefix:]name[=version] and parsed, gives its four components
\* back, also for a manager package whose name contains '/'.
C29_SelectorRoundTrip ==
    (slpc = "done" /\ sl_resolved) => sl_back = sl_sel

\* A manager package of no named repository whose name contains '/'.
C29_Witness ==
    /\ slpc = "done" /\ sl_resolved
    /\ sl_sel[1].recipe = NoneV
    /\ sl_sel[1].prefix = Some(<<"m">>)
    /\ sl_sel[1].package = <<"p", "/", "p">>
    /\ sl_back = sl_sel

\* ------------------------------------------------------------------------
\* Best-version selection: commands/package/resolve.rs,
\* models/version_entry.rs, utils/version.rs, utils/inspect.rs
\* A string is the sequence of its characters.
\* ------------------------------------------------------------------------
MaxVersions == 2

CharCode(c) ==
    CASE c = "*" -> 42 [] c = "-" -> 45 [] c = "." -> 46
      [] c = "0" -> 48 [] c = "1" -> 49 [] c = "2" -> 50
      [] c = "a" -> 97 [] c = "b" -> 98 [] c = "e" -> 101 [] c = "l" -> 108
      [] c = "g" -> 103 [] c = "i" -> 105 [] c = "n" -> 110
      [] c = "s" -> 115 [] c = "t" -> 116 [] c = "u" -> 117 [] OTHER -> 120

IsDigit(c) == c \in {"0", "1", "2"}

\* Ordering of str: -1, 0 or 1.
RECURSIVE StrCmp(_, _)
StrCmp(a, b) ==
    IF a = <<>> /\ b = <<>> THEN 0
    ELSE IF a = <<>> THEN -1
    ELSE IF b = <<>> THEN 1
    ELSE IF CharCode(a[1]) < CharCode(b[1]) THEN -1
    ELSE IF CharCode(a[1]) > CharCode(b[1]) THEN 1
    ELSE StrCmp(Tail(a), Tail(b))

\* str::split(sep)
RECURSIVE Split(_, _)
Split(s, sep) ==
    LET i == Find(s, sep)
    IN  IF i = 0 THEN <<s>>
        ELSE <<SubSeq(s, 1, i - 1)>> \o Split(SubSeq(s, i + 1, Len(s)), sep)

\* The leading characters of s that are digits or dots.
RECURSIVE NumericPrefix(_)
NumericPrefix(s) ==
    IF s # <<>> /\ (IsDigit(s[1]) \/ s[1] = ".")
    THEN <<s[1]>> \o NumericPrefix(Tail(s))
    ELSE <<>>

RECURSIVE ParseU32(_, _)
ParseU32(s, acc) ==
    IF s = <<>> THEN acc ELSE ParseU32(Tail(s), acc * 10 + (CharCode(s[1]) - 48))

\* inspect_version: the components of a version whose text starts with its
\* dotted number.
inspect_components(raw) ==
    LET parts == Split(NumericPrefix(raw), ".")
    IN  [i \in DOMAIN parts |-> ParseU32(parts[i], 0)]

\* Ordering of Vec<u32> as StructuredVersion::cmp compares the components.
RECURSIVE ComponentsCmp(_, _)
ComponentsCmp(a, b) ==
    IF a = <<>> /\ b = <<>> THEN 0
    ELSE IF a = <<>> THEN -1
    ELSE IF b = <<>> THEN 1
    ELSE IF a[1] < b[1] THEN -1
    ELSE IF a[1] > b[1] THEN 1
    ELSE ComponentsCmp(Tail(a), Tail(b))

\* StructuredVersion::cmp
VersionCmp(a, b) ==
    IF ComponentsCmp(a.components, b.components) # 0
    THEN ComponentsCmp(a.components, b.components)
    ELSE StrCmp(a.raw, b.raw)

\* The comparator of find_best_version with its arguments in ascending order.
EntryCmp(a, b) ==
    IF VersionCmp(a.version, b.version) # 0
    THEN VersionCmp(a.version, b.version)
    ELSE StrCmp(a.release_date, b.release_date)

\* A regular expression of literal characters and ".*" (the token "ANY")
\* matched against the whole of s.
RECURSIVE GlobMatch(_, _)
GlobMatch(s, re) ==
    IF re = <<>> THEN s = <<>>
    ELSE IF re[1] = "ANY"
    THEN \E k \in 0..Len(s) : GlobMatch(SubSeq(s, k + 1, Len(s)), Tail(re))
    ELSE s # <<>> /\ s[1] = re[1] /\ GlobMatch(Tail(s), Tail(re))

\* part_to_regex
part_to_regex(part) == [i \in DOMAIN part |-> IF part[i] = "*" THEN "ANY" ELSE part[i]]

\* match_version_with_wildcard: the loop over the parts from part i on, with
\* the expression built so far.
RECURSIVE WildcardFrom(_, _, _, _)
WildcardFrom(version, parts, i, re) ==
    IF i > Len(parts) THEN GlobMatch(version, re)
    ELSE IF parts[i] = <<"*">>
    THEN IF i = 1
         THEN TRUE
         ELSE GlobMatch(version, re) \/ GlobMatch(version, re \o <<".", "ANY">>)
    ELSE WildcardFrom(version, parts, i + 1,
                      re \o (IF i > 1 THEN <<".">> ELSE <<>>) \o part_to_regex(parts[i]))

\* match_version_with_wildcard
match_version_with_wildcard(version, pattern) ==
    WildcardFrom(version, Split(pattern, "."), 1, <<>>)

T_latest == <<"l", "a", "t", "e", "s", "t">>
T_stable == <<"s", "t", "a", "b", "l", "e">>
T_unstable == <<"u", "n">> \o T_stable
T_testing == <<"t", "e", "s", "t", "i", "n", "g">>
T_lts == <<"l", "t", "s">>
TypeTargets == {T_stable, T_unstable, T_testing, T_lts}
\* The release types of the entries of the lists.
EntryTypes == {T_stable, T_testing}

\* match_target_version
match_target_version(v, target) ==
    IF target = T_latest THEN TRUE
    ELSE IF target \in TypeTargets THEN v.release_type = target
    ELSE IF \E i \in DOMAIN target : target[i] = "*"
    THEN match_version_with_wildcard(v.version.raw, target)
    ELSE v.version.raw = target

\* Vec::sort_by is stable: the first of the entries no entry of xs exceeds.
BestOf(xs) ==
    IF xs = <<>> THEN NoneV
    ELSE LET i == CHOOSE i \in DOMAIN xs :
                    /\ \A j \in DOMAIN xs : EntryCmp(xs[j], xs[i]) <= 0
                    /\ \A j \in 1..(i - 1) : EntryCmp(xs[j], xs[i]) < 0
         IN  Some(xs[i])

\* find_best_version
find_best_version(versions, target_version) ==
    BestOf(SelectSeq(versions, LAMBDA v : match_target_version(v, target_version)))

Raws ==
    {<<"1">>, <<"1", ".", "0">>, <<"1", ".", "2">>, <<"2", ".", "0">>,
     <<"1", ".", "0", "-", "a">>, <<"1", ".", "0", "-", "b">>, <<"1", ".", "0", ".", "2">>}
Dates == {<<"1">>, <<"2">>}
Targets ==
    {T_latest, T_stable, T_unstable, T_testing, T_lts, <<"1", ".", "0">>, <<"2">>, <<"*">>, <<"1", ".", "*">>,
     <<"1", ".", "0", "-", "*">>, <<"1", "*">>, <<"1", ".", "*", ".", "2">>,
     <<"*", ".", "2">>}

VersionEntries ==
    {[version |-> [components |-> inspect_components(r), raw |-> r],
      release_date |-> d, release_type |-> t] :
        r \in Raws, d \in Dates, t \in EntryTypes}

InitBest ==
    /\ bv_list \in SeqsUpTo(VersionEntries, MaxVersions)
    /\ bv_target \in Targets
    /\ bv_result = NoneV
    /\ bvpc = "call"

FindBestVersion ==
    /\ bvpc = "call"
    /\ bv_result' = find_best_version(bv_list, bv_target)
    /\ bvpc' = "done"
    /\ UNCHANGED <<bv_list, bv_target>>
    /\ UNCHANGED notBest

NextBest == FindBestVersion

BestInit == InitBest /\ IdleEarly /\ IdleEnv /\ IdleVc /\ IdleRepo /\ IdleMain /\ IdleSelector /\ IdleResolve /\ IdleDeps /\ IdlePurge /\ IdleLife

SpecBest == BestInit /\ [][NextBest]_vars

\* a is above b by version tuple and then by release date.
TupleThenDateAbove(a, b) ==
    \/ ComponentsCmp(a.version.components, b.version.components) > 0
    \/ /\ ComponentsCmp(a.version.components, b.version.components) = 0
       /\ StrCmp(a.release_date, b.release_date) > 0

MatchingRecords == {i \in DOMAIN bv_list : match_target_version(bv_list[i], bv_target)}

PlainPattern(pattern) ==
    \A k \in DOMAIN Split(pattern, ".") :
        LET part == Split(pattern, ".")[k]
        IN  part = <<"*">> \/ \A j \in DOMAIN part : part[j] # "*"

\* Component-wise matching at its most permissive: a "*" component stands
\* for any number of components, every other component for itself.
RECURSIVE ComponentsMatch(_, _)
ComponentsMatch(vparts, pparts) ==
    IF pparts = <<>> THEN vparts = <<>>
    ELSE IF pparts[1] = <<"*">>
    THEN \E k \in 0..Len(vparts) :
            ComponentsMatch(SubSeq(vparts, k + 1, Len(vparts)), Tail(pparts))
    ELSE vparts # <<>> /\ vparts[1] = pparts[1]
         /\ ComponentsMatch(Tail(vparts), Tail(pparts))

\* C34: wildcard matching is component-wise: when find_best_version returns
\* a version for a pattern of "*" and '*'-free components, the components of
\* the pattern that follow a "*" match components of the version, and a
\* '*'-free component matches only an identical component.
C34_WildcardComponentWise ==
    (/\ bvpc = "done" /\ IsSome(bv_result)
     /\ \E j \in DOMAIN bv_target : bv_target[j] = "*"
     /\ PlainPattern(bv_target))
        => ComponentsMatch(Split(bv_result[1].version.raw, "."), Split(bv_target, "."))

\* ------------------------------------------------------------------------
\* Selector resolution across the configured repositories:
\* commands/package/resolve.rs, models/package_entry.rs
\* ------------------------------------------------------------------------
MaxRepos == 3

RepoIds == <<"r1", "r2", "r3", "r4">>
\* index: "ok" when PackageList::get_for_repo gives the list (from memory,
\* from disk or after the sync), "broken" when it gives None.
\* match: the repository has a version for the selector in its cache
\* ("cached"), only once the versions are synced ("after_sync"), or not at all.
RepoStates == [index : {"ok", "broken"}, match : {"cached", "after_sync", "never"}]

\* should_skip_repo
should_skip_repo(repo, recipe) == IsSome(recipe) /\ repo.name # recipe[1]

\* PackageList::get_for_repo: the list, or none.
get_for_repo(repo, force) == IF repo.index = "ok" THEN Some(repo.name) ELSE NoneV

\* try_resolve_in_repo: VersionList::get_for_package syncs when config.force
\* or force is set.
try_resolve_in_repo(repo, config_force, force) ==
    IF repo.match = "cached" \/ (repo.match = "after_sync" /\ (config_force \/ force))
    THEN Some(repo.name)
    ELSE NoneV

\* The loop with `continue` in place of the `?` on get_for_repo.
RECURSIVE resolve_query_internal_continue(_, _, _, _)
resolve_query_internal_continue(repos, recipe, config_force, force) ==
    IF repos = <<>> THEN NoneV
    ELSE IF should_skip_repo(repos[1], recipe)
         \/ ~IsSome(get_for_repo(repos[1], force))
         \/ ~IsSome(try_resolve_in_repo(repos[1], config_force, force))
    THEN resolve_query_internal_continue(Tail(repos), recipe, config_force, force)
    ELSE try_resolve_in_repo(repos[1], config_force, force)

\* resolve_query_internal: `get_for_repo(..)?` returns None from the function.
RECURSIVE resolve_query_internal(_, _, _, _)
resolve_query_internal(repos, recipe, config_force, force) ==
    IF repos = <<>> THEN NoneV
    ELSE IF should_skip_repo(repos[1], recipe)
    THEN resolve_query_internal(Tail(repos), recipe, config_force, force)
    ELSE IF ~IsSome(get_for_repo(repos[1], force))
    THEN NoneV
    ELSE IF IsSome(try_resolve_in_repo(repos[1], config_force, force))
    THEN try_resolve_in_repo(repos[1], config_force, force)
    ELSE resolve_query_internal(Tail(repos), recipe, config_force, force)

\* resolve_query
resolve_query(repos, recipe, config_force) ==
    IF IsSome(resolve_query_internal(repos, recipe, config_force, FALSE))
    THEN resolve_query_internal(repos, recipe, config_force, FALSE)
    ELSE IF ~config_force
    THEN resolve_query_internal(repos, recipe, config_force, TRUE)
    ELSE NoneV

InitResolve ==
    /\ \E n \in 1..MaxRepos, st \in [1..MaxRepos -> RepoStates] :
          rs_repos = [i \in 1..n |->
                         [name |-> RepoIds[i], index |-> st[i].index, match |-> st[i].match]]
    /\ rs_recipe \in {NoneV} \cup {Some(RepoIds[i]) : i \in 1..MaxRepos}
    /\ rs_force \in BOOLEAN
    /\ rs_result = NoneV
    /\ rspc = "call"

\* resolve_single_query: the call of resolve_query.
ResolveQueryCall ==
    /\ rspc = "call"
    /\ rs_result' = resolve_query(rs_repos, rs_recipe, rs_force)
    /\ rspc' = "done"
    /\ UNCHANGED <<rs_repos, rs_recipe, rs_force>>
    /\ UNCHANGED notResolve

NextResolve == ResolveQueryCall

ResolveInit ==
    InitResolve /\ IdleEarly /\ IdleEnv /\ IdleVc /\ IdleRepo /\ IdleMain /\ IdleSelector /\ IdleBest
    /\ IdleDeps /\ IdlePurge /\ IdleLife

SpecResolve == ResolveInit /\ [][NextResolve]_vars

\* The candidate repositories that have a matching version: not skipped
\* by the selector, index available, a version in the cache or after a sync.
Candidates ==
    {i \in DOMAIN rs_repos :
        /\ ~should_skip_repo(rs_repos[i], rs_recipe)
        /\ rs_repos[i].index = "ok"
        /\ rs_repos[i].match # "never"}

\* C33: resolution returns a version whenever a candidate repository has a
\* matching version, and the version comes from a candidate that no
\* candidate with the version in its cache precedes; a repository whose
\* index cannot be loaded or synced does not stop the later ones.
C33_ResolveAcrossRepos ==
    (rspc = "done" /\ Candidates # {}) =>
        /\ IsSome(rs_result)
        /\ \E i \in Candidates :
              /\ rs_repos[i].name = rs_result[1]
              /\ \A j \in Candidates : j < i => rs_repos[j].match = "after_sync"

\* ------------------------------------------------------------------------
\* Dependency resolution of a build: commands/cave/build.rs
\* ------------------------------------------------------------------------
MaxDeps == 2

DepQueries == {"app", "lib", "opt"}
InitialPackages == <<"app">>
Dependencies == [name : {"lib", "opt"}, optional : BOOLEAN]

InitDeps ==
    /\ dp_status \in [DepQueries -> {"ok", "invalid", "missing"}]
    /\ \E da, dl \in SeqsUpTo(Dependencies, MaxDeps) :
          dp_deps = [q \in DepQueries |-> IF q = "app" THEN da ELSE IF q = "lib" THEN dl ELSE <<>>]
    /\ to_resolve = InitialPackages
    /\ dp_resolved = {}
    /\ dp_failed = NoneV
    /\ dppc = "loop"

\* resolve_dependencies with only the required dependencies queued.
queued_required(deps, done) ==
    LET required == SelectSeq(deps, LAMBDA d : ~d.optional)
    IN  SelectSeq([i \in DOMAIN required |-> required[i].name], LAMBDA n : n \notin done)

\* resolve_dependencies: the dependency names pushed to the queue, optional
\* or not.
queued(deps, done) ==
    SelectSeq([i \in DOMAIN deps |-> deps[i].name], LAMBDA n : n \notin done)

\* resolve_dependencies: one iteration of the `while let` loop, or its end.
ResolveDependenciesStep ==
    /\ dppc = "loop"
    /\ IF to_resolve = <<>>
       THEN /\ dppc' = "ok"
            /\ UNCHANGED <<to_resolve, dp_resolved, dp_failed>>
       ELSE LET query == Head(to_resolve)
            IN  IF query \in dp_resolved
                THEN /\ to_resolve' = Tail(to_resolve)
                     /\ UNCHANGED <<dp_resolved, dp_failed, dppc>>
                ELSE IF dp_status[query] # "ok"
                THEN \* "Invalid selector" / "Package not found"
                     /\ dppc' = "failed"
                     /\ dp_failed' = Some(query)
                     /\ to_resolve' = Tail(to_resolve)
                     /\ UNCHANGED dp_resolved
                ELSE /\ to_resolve' = Tail(to_resolve) \o queued(dp_deps[query], dp_resolved)
                     /\ dp_resolved' = dp_resolved \cup {query}
                     /\ UNCHANGED <<dp_failed, dppc>>
    /\ UNCHANGED <<dp_status, dp_deps>>
    /\ UNCHANGED notDeps

NextDeps == ResolveDependenciesStep

DepsInit ==
    InitDeps /\ IdleEarly /\ IdleEnv /\ IdleVc /\ IdleRepo /\ IdleMain /\ IdleSelector /\ IdleBest
    /\ IdleResolve /\ IdlePurge /\ IdleLife

SpecDeps == DepsInit /\ [][NextDeps]_vars

\* q is a package of the workspace or a required dependency of a resolved
\* package.
IsRequired(q) ==
    \/ q \in Range(InitialPackages)
    \/ \E p \in dp_resolved : \E i \in DOMAIN dp_deps[p] :
          dp_deps[p][i].name = q /\ ~dp_deps[p][i].optional

\* C38: an optional build dependency that cannot be parsed or resolved does
\* not fail the build; the resolution fails only for a package of the
\* workspace or a required dependency.
C38_OptionalDepNotFatal ==
    dppc = "failed" => IsRequired(dp_failed[1])

\* ------------------------------------------------------------------------
\* Repositories sharing the meta directory of the cache: services/sync.rs,
\* models/config.rs, models/version_entry.rs
\* A name is the sequence of its parts.
\* ------------------------------------------------------------------------
MaxPurgeOps == 3

PurgeRepos == {<<"main">>, <<"main", "-", "extra">>, <<"other">>}
PurgePackages == {<<"p">>, <<"q">>}

\* Config::package_cache_file
package_cache_file(repo_name) == <<"packages", "-">> \o repo_name \o <<".json">>

\* Config::version_cache_file
version_cache_file(repo_name, safe_name) ==
    <<"version", "-">> \o repo_name \o <<"-">> \o safe_name \o <<".json">>

\* The key of State.version_lists in get_for_package.
version_key(repo_name, package_name) == repo_name \o <<":">> \o package_name

ends_with_json(name) == name # <<>> /\ Last(name) = ".json"

\* clear_repo_cache with the version files of the repository named one by one.
clear_repo_files_exact(files, repo_name) ==
    files \ {version_cache_file(repo_name, pkg) : pkg \in PurgePackages}

\* clear_repo_cache: the files that stay in the meta directory.
clear_repo_files(files, repo_name) ==
    {f \in files : ~(IsPrefix(<<"version", "-">> \o repo_name \o <<"-">>, f) /\ ends_with_json(f))}

\* clear_repo_cache: the keys that stay in version_lists.
clear_repo_keys(keys, repo_name) ==
    {k \in keys : ~IsPrefix(repo_name \o <<":">>, k)}

InitPurge ==
    /\ meta_files = {} /\ pg_version_lists = {} /\ pg_package_lists = {} /\ pg_synced = NoneV
    /\ pg_before = [files |-> {}, keys |-> {}] /\ npurge = 0

\* VersionList::get_for_package whose sync succeeds: the list is saved and
\* inserted into version_lists.
GetVersions(repo_name, package_name) ==
    /\ npurge < MaxPurgeOps
    /\ npurge' = npurge + 1
    /\ meta_files' = meta_files \cup {version_cache_file(repo_name, package_name)}
    /\ pg_version_lists' = pg_version_lists \cup {version_key(repo_name, package_name)}
    /\ pg_synced' = NoneV
    /\ UNCHANGED <<pg_package_lists, pg_before>>
    /\ UNCHANGED notPurge

\* sync_repo: clear_repo_cache, then the package list is saved.
SyncRepo(repo_name) ==
    /\ npurge < MaxPurgeOps
    /\ npurge' = npurge + 1
    /\ pg_before' = [files |-> meta_files, keys |-> pg_version_lists]
    /\ pg_package_lists' = pg_package_lists \ {repo_name}
    /\ pg_version_lists' = clear_repo_keys(pg_version_lists, repo_name)
    /\ meta_files' = clear_repo_files(meta_files, repo_name) \cup {package_cache_file(repo_name)}
    /\ pg_synced' = Some(repo_name)
    /\ UNCHANGED notPurge

NextPurge ==
    \/ \E r \in PurgeRepos, pkg \in PurgePackages : GetVersions(r, pkg)
    \/ \E r \in PurgeRepos : SyncRepo(r)

PurgeInit ==
    InitPurge /\ IdleEarly /\ IdleEnv /\ IdleVc /\ IdleRepo /\ IdleMain /\ IdleSelector /\ IdleBest
    /\ IdleResolve /\ IdleDeps /\ IdleLife

SpecPurge == PurgeInit /\ [][NextPurge]_vars

\* C39: sync_repo(r) removes no version file and no version_lists entry of
\* another repository r2, also when the name of r2 is the name of r
\* followed by '-' and more.
C39_SyncLeavesOtherRepos ==
    IsSome(pg_synced) =>
        \A r2 \in PurgeRepos \ {pg_synced[1]}, pkg \in PurgePackages :
            /\ version_cache_file(r2, pkg) \in pg_before.files
                  => version_cache_file(r2, pkg) \in meta_files
            /\ version_key(r2, pkg) \in pg_before.keys
                  => version_key(r2, pkg) \in pg_version_lists

\* ------------------------------------------------------------------------
\* Builds and disk clean over time: commands/cave/build.rs,
\* commands/disk/clean.rs
\* ------------------------------------------------------------------------
MaxCleans == 1

StepKeys == {<<q, i>> : q \in Queries, i \in 0..3}

InitLife ==
    /\ last_exec = [k \in StepKeys |-> "none"]
    /\ nclean = 0

\* The event execute_pipeline appended in this step, if it appended one.
NewEvent == IF Len(events') = Len(events) + 1 THEN Some(events'[Len(events')]) ELSE NoneV

\* cave build [--force] [--rebuild]
LifeStartBuild(force, rebuild) ==
    /\ execute_build(force, rebuild)
    /\ UNCHANGED lcVars
    /\ UNCHANGED notLife

\* One iteration of execute_pipeline; how the execution of the step ended is
\* remembered.
LifePipelineStep ==
    /\ execute_pipeline_iteration
    /\ last_exec' = IF NewEvent[1].how = "executed"
                    THEN [last_exec EXCEPT ![<<NewEvent[1].q, NewEvent[1].i>>] =
                              IF NewEvent[1].ok THEN "ok" ELSE "failed"]
                    ELSE last_exec
    /\ UNCHANGED nclean
    /\ UNCHANGED notLife

LifeFinishPipeline ==
    /\ pipeline_returned
    /\ UNCHANGED lcVars
    /\ UNCHANGED notLife

\* disk clean [--packages] [--downloads]: clean_dir removes the directory with
\* all it holds. The content store is in <cache_dir>/builds and stays.
DiskClean(packages, downloads_flag) ==
    /\ bpc = "idle"
    /\ nclean < MaxCleans
    /\ packages \/ downloads_flag
    /\ nclean' = nclean + 1
    /\ pkgdirs' = IF packages THEN [d \in DirNames |-> Absent] ELSE pkgdirs
    /\ downloads' = IF downloads_flag THEN [f \in FileNames |-> Absent] ELSE downloads
    /\ UNCHANGED <<manifest, pipelines, bpc, cfg, order, pi, si, recomputed, current_path,
                   events, applied, lastResult, pre, edits, nbuilds, nedits, store, last_exec>>
    /\ UNCHANGED notLife

NextLife ==
    \/ \E force, rebuild \in BOOLEAN : LifeStartBuild(force, rebuild)
    \/ LifePipelineStep
    \/ LifeFinishPipeline
    \/ \E packages, downloads_flag \in BOOLEAN : DiskClean(packages, downloads_flag)

LifeInit ==
    /\ InitBuild /\ store = EmptyStore /\ lookupLog = NoneV /\ nrec = 0
    /\ IdleTopo /\ InitDownload /\ IdleSandbox /\ InitExports /\ IdleMore
    /\ IdleEnv /\ IdleVc /\ IdleRepo /\ IdleMain /\ IdleSelector /\ IdleBest
    /\ IdleResolve /\ IdleDeps /\ IdlePurge /\ InitLife

SpecLife == LifeInit /\ [][NextLife]_vars

\* Whether a path under the downloads or the packages directory exists.
path_exists(p, dl, pd) ==
    \/ IsDownloadPath(p) /\ Tail1(p) \in DOMAIN dl /\ dl[Tail1(p)] # Absent
    \/ IsPackagesPath(p) /\ Tail1(p) \in DOMAIN pd /\ pd[Tail1(p)] # Absent

\* C35: across builds, a step is adopted from the content store only if its
\* most recent execution succeeded.
C35_AdoptedOnlyAfterSuccess ==
    [][(IsSome(NewEvent) /\ NewEvent[1].how = "adopted")
          => last_exec[<<NewEvent[1].q, NewEvent[1].i>>] = "ok"]_vars

\* C36: a step is adopted from the content store only while the output path
\* of the record exists.
C36_AdoptedPathExists ==
    [][(IsSome(NewEvent) /\ NewEvent[1].how = "adopted")
          => path_exists(current_path'[1], downloads, pkgdirs)]_vars

====
